---- MODULE Spec2Model ----
(***************************************************************************)
(* A model of the synapse session orchestrator                             *)
(* (packages/server/src/session.ts), its tool registry                     *)
(* (packages/server/src/tool_registry.ts) and the wire schemas             *)
(* (packages/protocol/src/index.ts).                                       *)
(*                                                                         *)
(* One ClientSession on one socket.  Every action is one run-to-completion *)
(* block of the JavaScript event loop: a socket listener, or the           *)
(* continuation of an agent loop from the await that suspended it up to    *)
(* its next await.                                                         *)
(***************************************************************************)
EXTENDS Integers, Sequences, FiniteSets, TLC

\* ------------------------------------------------------------------ bounds

\* The number of definitions registered on a registry.
MaxRegistered == 4

\* user_message payloads the client sends on the connection
MaxUserMessages == 2
\* tool_call events the provider emits over the life of the session (Spec)
MaxToolCalls == 2
\* inbound payloads that a listener drops (schema failure, foreign callId)
MaxIgnored == 1
\* context_update frames of the client that the server has not handled yet
MaxInFlight == 2
\* connections the server accepts (SpecSessions)
MaxSockets == 3

\* -------------------------------------------------------------- JS values

\* A JavaScript value: a primitive carries its literal in lit, an object its
\* own enumerable properties, in order, in fields (<<key, value>> pairs).
Prim(tag, lit) == [tag |-> tag, lit |-> lit, fields |-> <<>>]
VStr(s) == Prim("string", s)
VBool(b) == Prim("boolean", IF b THEN "true" ELSE "false")
VNum(n) == Prim("number", ToString(n))
VNull == Prim("null", "null")
VUndefined == Prim("undefined", "undefined")
VObj(fields) == [tag |-> "object", lit |-> "", fields |-> fields]
\* new Error(message)
VError(message) == Prim("Error", message)

\* A JSON string literal.  The strings of this model hold no character that
\* JSON.stringify escapes.
Quote(s) == "\"" \o s \o "\""

RECURSIVE JSONStringify(_)
RECURSIVE JSONFields(_, _)
\* JSON.stringify(v) for a v that is not undefined.  A property whose value
\* is undefined is left out; an Error has no enumerable property.
JSONFields(fields, first) ==
    IF fields = <<>> THEN ""
    ELSE IF fields[1][2].tag = "undefined" THEN JSONFields(Tail(fields), first)
    ELSE (IF first THEN "" ELSE ",") \o Quote(fields[1][1]) \o ":"
            \o JSONStringify(fields[1][2]) \o JSONFields(Tail(fields), FALSE)
JSONStringify(v) ==
    CASE v.tag = "string" -> Quote(v.lit)
      [] v.tag \in {"boolean", "number", "null"} -> v.lit
      [] v.tag = "Error" -> "{}"
      [] v.tag = "object" -> "{" \o JSONFields(v.fields, TRUE) \o "}"

\* The content of a history entry built with JSON.stringify(v):
\* JSON.stringify(undefined) is undefined, not a string.
StringifyContent(v) ==
    IF v.tag = "undefined" THEN VUndefined ELSE VStr(JSONStringify(v))

\* `Error: ${e instanceof Error ? e.message : JSON.stringify(e)}`
ErrorText(e) ==
    "Error: " \o (IF e.tag = "Error" THEN e.lit
                  ELSE IF e.tag = "undefined" THEN "undefined"
                  ELSE JSONStringify(e))

\* ---------------------------------------------------------- client context

\* An absent optional field.
Absent == "<absent>"
\* A field value that is not a string (the number 42).
NotAString == "<42>"

\* ClientContext: the fields the sessions of this model use.
Ctx(page, tab) == [page_id |-> page, active_tab |-> tab]
EmptyContext == Ctx(Absent, Absent)
SettingsContext == Ctx("settings", Absent)
TodosContext == Ctx("todos", "list")
Contexts == {SettingsContext, TodosContext}

\* context_update payloads the client may send: the contexts, one whose
\* page_id is a number, and one with a key the schema does not name.
InvalidContextPayload == Ctx(NotAString, Absent)
ExtraKeyPayload == [page_id |-> "settings", active_tab |-> Absent, theme |-> "dark"]
ContextPayloads == Contexts \cup {InvalidContextPayload, ExtraKeyPayload}

\* ClientContextSchema.safeParse(payload).success
ClientContextSchemaOk(payload) ==
    /\ payload.page_id # NotAString
    /\ payload.active_tab # NotAString

\* ClientContextSchema.safeParse(payload).data: a z.object keeps the keys it
\* names and strips the others.
ParseContext(payload) == Ctx(payload.page_id, payload.active_tab)

\* A context as the JS object it is.
CtxValue(c) ==
    VObj(<< <<"page_id", IF c.page_id = Absent THEN VUndefined ELSE VStr(c.page_id)>>,
            <<"active_tab", IF c.active_tab = Absent THEN VUndefined ELSE VStr(c.active_tab)>> >>)

\* ------------------------------------------------------------ tool registry

\* A ToolDefinition.  contextFilter is the page_id the filter asks for
\* (ctx.page_id === page), Absent for a tool without a filter; resultSchema
\* names the zod schema, "none" for a tool without one; timeout is 0 when the
\* definition has none; handler says whether the definition has a handler,
\* which the server variant of the type requires and the client variant
\* does not have.
Tool(name, side, page, schema) ==
    [name |-> name, executionSide |-> side, contextFilter |-> page,
     resultSchema |-> schema, timeout |-> 0, handler |-> side = "server"]

\* A definition with a timeout of its own.
WithTimeout(tool, ms) == [tool EXCEPT !.timeout = ms]

\* The tool the AgentServer constructor registers: server side, no
\* contextFilter, no resultSchema; its handler returns the context it is
\* handed.
FacadeTool == Tool("get_current_context", "server", Absent, "none")

\* A mutant: a name the Map has keeps its definition.
RegisterToolKeepsFirst(tools, tool) ==
    IF \E j \in 1..Len(tools) : tools[j].name = tool.name THEN tools
    ELSE Append(tools, tool)

\* The registry's Map, in insertion order: the facade's own tool first, then
\* the tools of the playground's routers this model uses.  listTodos, which
\* has no resultSchema, is registered with timeout: 50.
Registry ==
    << Tool("get_current_context", "server", Absent, "none"),
       Tool("searchWeather", "server", Absent, "none"),
       Tool("toggleDarkMode", "client", "settings", "darkMode:boolean"),
       WithTimeout(Tool("listTodos", "client", "todos", "none"), 50) >>

\* A mutant: a name registered again moves to the end of the Map.
RegisterToolMovesLast(tools, tool) ==
    Append(SelectSeq(tools, LAMBDA t : t.name # tool.name), tool)

\* this.tools.set(tool.name, tool) on the Map tools, kept as the sequence of
\* its values in iteration order: a new key goes last, a key the Map has
\* keeps its place and takes the new value.
RegisterTool(tools, tool) ==
    IF \E j \in 1..Len(tools) : tools[j].name = tool.name
    THEN [j \in 1..Len(tools) |-> IF tools[j].name = tool.name THEN tool ELSE tools[j]]
    ELSE Append(tools, tool)

\* for (const tool of list) this.register(tool)
RECURSIVE RegisterAllTools(_, _)
RegisterAllTools(tools, list) ==
    IF list = <<>> THEN tools
    ELSE RegisterAllTools(RegisterTool(tools, list[1]), Tail(list))

\* A ToolRegistry on which the definitions of list were registered, one by
\* one; calls keeps, for the record, what was registered, in order.
Built(list) == [tools |-> RegisterAllTools(<<>>, list), calls |-> list]

\* tool.contextFilter(context)
ContextFilter(tool, context) == context.page_id = tool.contextFilter

RECURSIVE FilterTools(_, _)
FilterTools(tools, context) ==
    IF tools = <<>> THEN <<>>
    ELSE (IF tools[1].contextFilter = Absent \/ ContextFilter(tools[1], context)
          THEN <<tools[1].name>> ELSE <<>>) \o FilterTools(Tail(tools), context)

\* this.tools.get(name) on a Map that has the key.
MapGet(tools, name) == tools[CHOOSE j \in 1..Len(tools) : tools[j].name = name]

\* A mutant: a registered tool is available whatever its filter says.
IsToolAvailableInNoFilter(tools, toolName, context) ==
    \E j \in 1..Len(tools) : tools[j].name = toolName

\* ToolRegistry.isToolAvailable on the Map tools.
IsToolAvailableIn(tools, toolName, context) ==
    IF \A j \in 1..Len(tools) : tools[j].name # toolName THEN FALSE
    ELSE IF MapGet(tools, toolName).contextFilter = Absent THEN TRUE
    ELSE ContextFilter(MapGet(tools, toolName), context)

\* The value of property key of object v (undefined when v has none).
RECURSIVE Lookup(_, _)
Lookup(fields, key) ==
    IF fields = <<>> THEN VUndefined
    ELSE IF fields[1][1] = key THEN fields[1][2]
    ELSE Lookup(Tail(fields), key)

\* schema.safeParse(v) for the zod schemas of the routers: z.string(), and
\* z.object({darkMode: z.boolean()}), which strips the keys it does not name.
\* error stands for zod's message.
SafeParse(schema, v) ==
    CASE schema = "string" ->
           IF v.tag = "string" THEN [success |-> TRUE, data |-> v, error |-> ""]
           ELSE [success |-> FALSE, data |-> VUndefined, error |-> "expected string"]
      [] schema = "darkMode:boolean" ->
           IF v.tag = "object" /\ Lookup(v.fields, "darkMode").tag = "boolean"
           THEN [success |-> TRUE,
                 data |-> VObj(<< <<"darkMode", Lookup(v.fields, "darkMode")>> >>),
                 error |-> ""]
           ELSE [success |-> FALSE, data |-> VUndefined, error |-> "expected boolean"]

\* schema.safeParse(v) throws: a schema with an async refinement, parsed
\* synchronously ("async:string" is z.string().refine(async ...)).
SafeParseThrows(schema) == schema = "async:string"

\* What safeParse throws then.
AsyncParseError == "Async refinement encountered during synchronous parse operation"

\* A mutant: the result is accepted as it is, whatever the schema.
ValidateResultInAcceptAll(tools, toolName, result) ==
    IF \A j \in 1..Len(tools) : tools[j].name # toolName
    THEN [success |-> FALSE, data |-> VUndefined, error |-> "Unknown tool: " \o toolName]
    ELSE [success |-> TRUE, data |-> result, error |-> ""]

\* ToolRegistry.validateResult on the Map tools.
ValidateResultIn(tools, toolName, result) ==
    IF \A j \in 1..Len(tools) : tools[j].name # toolName
    THEN [success |-> FALSE, data |-> VUndefined, error |-> "Unknown tool: " \o toolName]
    ELSE IF MapGet(tools, toolName).resultSchema = "none"
    THEN [success |-> TRUE, data |-> result, error |-> ""]
    ELSE IF SafeParseThrows(MapGet(tools, toolName).resultSchema)
    THEN [success |-> FALSE, data |-> VUndefined,
          error |-> "Result validation error for " \o toolName \o ": " \o AsyncParseError]
    ELSE LET parsed == SafeParse(MapGet(tools, toolName).resultSchema, result)
         IN  IF parsed.success THEN [success |-> TRUE, data |-> parsed.data, error |-> ""]
             ELSE [success |-> FALSE, data |-> VUndefined,
                   error |-> "Result validation failed for " \o toolName \o ": " \o parsed.error]

\* -------------------------------------------------- the client's context

\* A ClientContext as the client holds it: the four optional keys of the
\* schema.  page_id and active_tab are strings, Absent when the object has
\* not the key; capabilities is an array of strings and metadata an object,
\* given by its set of <<key, value>> pairs, each with the flag present.
ClientCtx(page_id, active_tab, capabilities, metadata) ==
    [page_id |-> page_id, active_tab |-> active_tab,
     capabilities |-> capabilities, metadata |-> metadata]

\* The key capabilities with the array items, and a context without the key.
Capabilities(items) == [present |-> TRUE, items |-> items]
NoCapabilities == [present |-> FALSE, items |-> <<>>]

\* The key metadata with the object of these pairs, and a context without.
Metadata(pairs) == [present |-> TRUE, pairs |-> pairs]
NoMetadata == [present |-> FALSE, pairs |-> {}]

\* const merged: ClientContext = {}
EmptyClientContext == ClientCtx(Absent, Absent, NoCapabilities, NoMetadata)

\* The object context has the key field.
HasKey(context, field) ==
    IF field \in {"capabilities", "metadata"} THEN context[field].present
    ELSE context[field] # Absent

\* Object.keys(context)
ObjectKeys(context) == {f \in DOMAIN context : HasKey(context, f)}

\* A mutant: metadata is merged key by key.
ObjectAssignDeep(merged, ctx) ==
    [f \in DOMAIN merged |->
        IF ~HasKey(ctx, f) THEN merged[f]
        ELSE IF f = "metadata" THEN Metadata(merged[f].pairs \cup ctx[f].pairs)
        ELSE ctx[f]]

\* Object.assign(merged, ctx): every own key of ctx is written over merged.
ObjectAssign(merged, ctx) ==
    [f \in DOMAIN merged |-> IF HasKey(ctx, f) THEN ctx[f] ELSE merged[f]]

\* A mutant: the last occurrence of a duplicate is the one kept.
RECURSIVE DedupeKeepsLast(_)
DedupeKeepsLast(list) ==
    IF list = <<>> THEN <<>>
    ELSE IF \E j \in 2..Len(list) : list[j] = Head(list)
         THEN DedupeKeepsLast(Tail(list))
         ELSE <<Head(list)>> \o DedupeKeepsLast(Tail(list))

\* [...new Set(list)]: a Set iterates in insertion order, and adding a value
\* it holds changes nothing.
RECURSIVE Dedupe(_)
Dedupe(list) ==
    IF list = <<>> THEN <<>>
    ELSE LET init == Dedupe(SubSeq(list, 1, Len(list) - 1))
             last == list[Len(list)]
         IN  IF \E j \in 1..Len(init) : init[j] = last THEN init
             ELSE Append(init, last)

\* The for loop of getMergedContext over the scopes left, in the Map's order.
RECURSIVE MergeScopes(_, _, _)
MergeScopes(scopes, merged, allCapabilities) ==
    IF scopes = <<>> THEN [merged |-> merged, allCapabilities |-> allCapabilities]
    ELSE LET ctx == Head(scopes).context
         IN  MergeScopes(Tail(scopes), ObjectAssign(merged, ctx),
                         IF ctx.capabilities.present
                         THEN allCapabilities \o ctx.capabilities.items
                         ELSE allCapabilities)

\* AgentClient.getMergedContext() on the Map scopes.
GetMergedContextOf(scopes) ==
    LET looped == MergeScopes(scopes, EmptyClientContext, <<>>)
    IN  IF Len(looped.allCapabilities) > 0
        THEN [looped.merged EXCEPT
                 !.capabilities = Capabilities(Dedupe(looped.allCapabilities))]
        ELSE looped.merged

\* The keys of the Map contextScopes.
ScopeKeys(scopes) == {scopes[j].scope : j \in 1..Len(scopes)}

\* contextScopes.set(scope, context): a key the Map has keeps its place.
ScopesSet(scopes, scope, context) ==
    IF scope \in ScopeKeys(scopes)
    THEN [j \in 1..Len(scopes) |->
             IF scopes[j].scope = scope THEN [scope |-> scope, context |-> context]
             ELSE scopes[j]]
    ELSE Append(scopes, [scope |-> scope, context |-> context])

\* A mutant: the scope's slice stays.
ScopesDeleteKeeps(scopes, scope) == scopes

\* contextScopes.delete(scope)
ScopesDelete(scopes, scope) ==
    LET Other(entry) == entry.scope # scope
    IN  SelectSeq(scopes, Other)

\* The last call of setContext or removeContext: its scope, and the scope
\* map that a call pair began with.  For a setContext that is the map before
\* the call, and fresh tells that it had not the key; for a removeContext
\* that follows the setContext of the same key, fresh as that was, it is the
\* map before the setContext.
ScopedCall(op, scope, fresh, before) ==
    [op |-> op, scope |-> scope, fresh |-> fresh, before |-> before]

\* The last call of registerExecutor or unregisterExecutor, as it was made.
ExecutorCall(op, toolId, func) == [op |-> op, toolId |-> toolId, func |-> func]

\* The client after its constructor: the initial context, when the config
\* has one (config is <<>> without, <<initialContext>> with), is the scope
\* "__initial__"; no executor; the socket not yet connected.
NewClient(config) ==
    [contextScopes |-> [j \in 1..Len(config) |->
                           [scope |-> "__initial__", context |-> config[j]]],
     lastCall |-> ScopedCall("none", "", FALSE, <<>>),
     executors |-> <<>>,
     lastExecutorCall |-> ExecutorCall("none", "", Absent),
     connected |-> FALSE,
     connects |-> 0,
     invocations |-> <<>>,
     dropped |-> 0]

\* The client of a session whose client the model does not follow.
NoClient == NewClient(<<>>)

\* -------------------------------------------------------------------- state

VARIABLES
    currentContext,   \* ClientSession.currentContext
    messages,         \* ClientSession.messages, the history
    loop,             \* the runAgentLoop activations: loop[i] is the one the
                      \* i-th valid user_message started (its locals, and the
                      \* await it is suspended at)
    listeners,        \* the tool_result / tool_error listeners on the socket
    timers,           \* the pending setTimeout timers of invokeClientTool
    stored,           \* what storage holds under the sessionId
    emitted,          \* agent_response and tool_invocation frames sent, in order
    lastSync,         \* the payload of the last context_sync sent
    handlerCalls,     \* the server handlers invoked: callId, tool, context handed
    nextCallId,       \* the provider's next fresh callId
    origin,           \* origin[j]: the loop and turn that appended messages[j]
    dispatched,       \* per dispatched call: was the tool available at that moment
    settled,          \* per settled waiter: what settled it
    ignored,          \* the number of inbound payloads dropped so far
    ignoredPending,   \* the callIds whose waiter was pending when a reply was dropped
    storage,          \* when this.storage stores what a set call carries
    writes,           \* the storage.set calls in flight
    connection,       \* the socket: connected, disconnected, connected anew
    registry,         \* the server's ToolRegistry: its Map, and what was registered
    client,           \* the AgentClient: its scopes, its executors, its activations
    wire,             \* the frames the client emitted that the server has not handled
    sessions,         \* AgentServer.sessions, the socket ids it holds a session for
    sockets           \* per connection: the socket and the connection handler's position

vars == <<currentContext, messages, loop, listeners, timers, stored, emitted,
          lastSync, handlerCalls, nextCallId, origin, dispatched, settled, ignored,
          ignoredPending, storage, writes, connection, registry,
          client, wire, sessions, sockets>>

\* The registry of the server, as the sessions use it.
ToolNames == {registry.tools[j].name : j \in 1..Len(registry.tools)}

\* ToolRegistry.getToolByName; only used on a registered name.
GetToolByName(name) == MapGet(registry.tools, name)

\* ToolRegistry.getToolsForContext, as the names of the tools returned.
GetToolsForContext(context) == FilterTools(registry.tools, context)

\* ToolRegistry.isToolAvailable
IsToolAvailable(toolName, context) == IsToolAvailableIn(registry.tools, toolName, context)

\* ToolRegistry.validateResult
ValidateResult(toolName, result) == ValidateResultIn(registry.tools, toolName, result)

Loops == 1..MaxUserMessages

\* ---------------------------------------------------------- history entries

NoCallId == 0

SystemEntry(content) ==
    [role |-> "system", content |-> VStr(content), tool_call_id |-> NoCallId, tool_calls |-> <<>>]
UserEntry(content) ==
    [role |-> "user", content |-> VStr(content), tool_call_id |-> NoCallId, tool_calls |-> <<>>]
ToolEntry(callId, content) ==
    [role |-> "tool", content |-> content, tool_call_id |-> callId, tool_calls |-> <<>>]

\* toolCalls.map(tc => ({id, type: "function", function: {name, arguments}}))
MapToolCalls(toolCalls) ==
    [j \in 1..Len(toolCalls) |->
        [id |-> toolCalls[j].callId, type |-> "function",
         function |-> [name |-> toolCalls[j].toolName,
                       arguments |-> JSONStringify(toolCalls[j].args)]]]

\* The assistant entry of a turn: content is the text, or null when the text
\* is empty; tool_calls is set only when there is a call (<<>> stands for the
\* absent property also).
AssistantEntry(text, toolCalls) ==
    [role |-> "assistant", content |-> IF text = "" THEN VNull ELSE VStr(text),
     tool_call_id |-> NoCallId, tool_calls |-> MapToolCalls(toolCalls)]

DefaultSystemPrompt ==
    "You are a helpful AI agent with access to client-side tools. "
    \o "Be concise and helpful in your responses. You can use the `get_current_context` tool to see the user's current page and state."

GhostError ==
    "Error: User is no longer on the valid page. The tool cannot be executed in the current context."

\* ------------------------------------------------------------ provider events

NoActions == [present |-> FALSE, items |-> <<>>]
Actions(items) == [present |-> TRUE, items |-> items]

TextEvent(content, suggestedActions) ==
    [type |-> "text", content |-> content, suggestedActions |-> suggestedActions,
     toolName |-> "", callId |-> NoCallId, args |-> VUndefined, error |-> VUndefined]
ToolCallEvent(toolName, callId, args) ==
    [type |-> "tool_call", content |-> "", suggestedActions |-> NoActions,
     toolName |-> toolName, callId |-> callId, args |-> args, error |-> VUndefined]
\* ErrorEvent.error is a string.
ErrorEvent(message) ==
    [type |-> "error", content |-> "", suggestedActions |-> NoActions,
     toolName |-> "", callId |-> NoCallId, args |-> VUndefined, error |-> VStr(message)]

\* The arguments the provider passes to each tool.
ToolArgs(toolName) ==
    IF toolName = "searchWeather" THEN VObj(<< <<"city", VStr("Paris")>> >>)
    ELSE VObj(<<>>)

\* The tool calls of one turn, with fresh callIds from n on.
CallsFrom(names, n) ==
    [j \in 1..Len(names) |-> ToolCallEvent(names[j], n + j - 1, ToolArgs(names[j]))]

\* The tool a turn of the always-succeeding scenario calls.
NominalToolList == <<"searchWeather">>

\* The lists of tools the provider may call in one turn.  deleteAccount is a
\* name the registry does not hold.
ProviderToolLists ==
    { NominalToolList,
      <<"toggleDarkMode", "get_current_context">>,
      <<"deleteAccount", "toggleDarkMode">> }

\* The event lists of a turn without tool call and without error.
TextTurns ==
    { <<>>,
      << TextEvent("It is ", Actions(<<"Forecast">>)), TextEvent("sunny.", NoActions) >>,
      << TextEvent("", Actions(<<"Forecast">>)), TextEvent("Done.", Actions(<<>>)) >> }

\* The event lists of a turn with tool calls, the first of which has callId n.
ToolTurns(n) ==
    {CallsFrom(names, n) : names \in ProviderToolLists}
    \cup {<<TextEvent("Checking.", Actions(<<"Wait">>))>> \o CallsFrom(<<"toggleDarkMode">>, n)}

\* The event lists of a turn with an error event.
ErrorTurns(n) ==
    { << ErrorEvent("rate limited") >>,
      <<TextEvent("Let me see.", Actions(<<"Retry">>))>> \o CallsFrom(NominalToolList, n)
          \o <<ErrorEvent("rate limited")>> }

\* The number of tool_call events of an event list.
RECURSIVE CountCalls(_)
CountCalls(events) ==
    IF events = <<>> THEN 0
    ELSE (IF events[1].type = "tool_call" THEN 1 ELSE 0) + CountCalls(Tail(events))

\* -------------------------------------------------------------- agent loops

\* const MAX_TURNS = 5
MAX_TURNS == 5
\* defaultToolTimeout: number = 30000
DefaultToolTimeout == 30000

\* A runAgentLoop activation.  pc is the await it is suspended at:
\*   "saveUser"       handleUserMessage's await this.saveState()
\*   "provider"       await this.provider.run(...)
\*   "saveAssistant"  await this.saveState() after the assistant entry
\*   "handler"        await toolDef.handler(...)
\*   "waitClient"     await this.invokeClientTool(...)
\*   "saveTools"      await this.saveState() after the tool entries
\* "idle" before its user_message arrived, "done" once it returned.  k is the
\* index in toolCalls of the call awaited; handed is the context the awaited
\* handler was called with.  events and rejected keep, for the record, what
\* the last provider.run of the loop answered.
IdleLoop ==
    [pc |-> "idle", turns |-> 0, availableTools |-> <<>>, toolCalls |-> <<>>,
     k |-> 0, suggestedActions |-> NoActions, handed |-> EmptyContext,
     events |-> <<>>, rejected |-> FALSE]

Active(i) == loop[i].pc \notin {"idle", "done"}

\* The number of user_message payloads accepted so far.
Started == Cardinality({i \in Loops : loop[i].pc # "idle"})

\* The data saveState hands to storage.set.
Snapshot(context, history) == [context |-> context, messages |-> history]

\* Frames on the wire; by names the loop that sent the frame.
Response(content, done, suggestedActions, i) ==
    [event |-> "agent_response", content |-> content, done |-> done,
     suggestedActions |-> suggestedActions, toolId |-> "", callId |-> NoCallId,
     params |-> VUndefined, by |-> i]
Invocation(toolId, callId, params, i) ==
    [event |-> "tool_invocation", content |-> "", done |-> FALSE,
     suggestedActions |-> NoActions, toolId |-> toolId, callId |-> callId,
     params |-> params, by |-> i]

\* A mutant: the loop does not return, it goes on to its next turn.
FinishGoesOn(lp) == [lp EXCEPT !.pc = "saveTools"]

\* The return from the loop: its locals are gone, the count of its turns is
\* kept for the record.
Finish(lp) ==
    [IdleLoop EXCEPT !.pc = "done", !.turns = lp.turns, !.events = lp.events,
                     !.rejected = lp.rejected]

\* A mutant: the loop runs one turn more.
BeginTurnMore(lp, context) ==
    IF lp.turns < MAX_TURNS + 1
    THEN [lp EXCEPT !.pc = "provider", !.turns = @ + 1,
                    !.availableTools = GetToolsForContext(context),
                    !.toolCalls = <<>>, !.k = 0, !.suggestedActions = NoActions,
                    !.events = <<>>, !.rejected = FALSE]
    ELSE Finish(lp)

\* while (turns < MAX_TURNS) { turns++; availableTools = ...; await provider.run
BeginTurn(lp, context) ==
    IF lp.turns < MAX_TURNS
    THEN [lp EXCEPT !.pc = "provider", !.turns = @ + 1,
                    !.availableTools = GetToolsForContext(context),
                    !.toolCalls = <<>>, !.k = 0, !.suggestedActions = NoActions,
                    !.events = <<>>, !.rejected = FALSE]
    ELSE Finish(lp)

\* A mutant: every text event overwrites suggestedActions, present or not.
RECURSIVE ProcessEventsLastWins(_, _, _)
ProcessEventsLastWins(events, acc, i) ==
    IF events = <<>> THEN acc
    ELSE LET event == events[1]
         IN CASE event.type = "text" ->
                   ProcessEventsLastWins(Tail(events),
                       [acc EXCEPT !.text = @ \o event.content,
                                   !.suggestedActions = event.suggestedActions,
                                   !.frames = Append(@, Response(event.content, FALSE, NoActions, i))],
                       i)
              [] event.type = "tool_call" ->
                   ProcessEventsLastWins(Tail(events), [acc EXCEPT !.toolCalls = Append(@, event)], i)
              [] event.type = "error" ->
                   [acc EXCEPT !.failed = TRUE, !.thrown = event.error]

\* A mutant: an error event is passed over.
RECURSIVE ProcessEventsPastError(_, _, _)
ProcessEventsPastError(events, acc, i) ==
    IF events = <<>> THEN acc
    ELSE LET event == events[1]
         IN CASE event.type = "text" ->
                   ProcessEventsPastError(Tail(events),
                       [acc EXCEPT !.text = @ \o event.content,
                                   !.suggestedActions =
                                       IF event.suggestedActions.present
                                       THEN event.suggestedActions ELSE @,
                                   !.frames = Append(@, Response(event.content, FALSE, NoActions, i))],
                       i)
              [] event.type = "tool_call" ->
                   ProcessEventsPastError(Tail(events), [acc EXCEPT !.toolCalls = Append(@, event)], i)
              [] event.type = "error" ->
                   ProcessEventsPastError(Tail(events), acc, i)

\* The for loop over the events of a turn, up to the first error event.
RECURSIVE ProcessEvents(_, _, _)
ProcessEvents(events, acc, i) ==
    IF events = <<>> THEN acc
    ELSE LET event == events[1]
         IN CASE event.type = "text" ->
                   ProcessEvents(Tail(events),
                       [acc EXCEPT !.text = @ \o event.content,
                                   !.suggestedActions =
                                       IF event.suggestedActions.present
                                       THEN event.suggestedActions ELSE @,
                                   !.frames = Append(@, Response(event.content, FALSE, NoActions, i))],
                       i)
              [] event.type = "tool_call" ->
                   ProcessEvents(Tail(events), [acc EXCEPT !.toolCalls = Append(@, event)], i)
              [] event.type = "error" ->
                   [acc EXCEPT !.failed = TRUE, !.thrown = event.error]

NoEvents ==
    [text |-> "", suggestedActions |-> NoActions, toolCalls |-> <<>>, frames |-> <<>>,
     failed |-> FALSE, thrown |-> VUndefined]

\* What one block of a loop leaves behind; save says whether it ended in a
\* call of saveState.
Block(lp) ==
    [messages |-> messages, origin |-> origin, emitted |-> emitted,
     listeners |-> listeners, timers |-> timers, handlerCalls |-> handlerCalls,
     dispatched |-> dispatched, settled |-> settled, lp |-> lp, save |-> FALSE]

\* messages.push(entry) by loop i
Push(b, i, entry) ==
    [b EXCEPT !.messages = Append(@, entry), !.origin = Append(@, <<i, b.lp.turns>>)]

\* A mutant: the tool's own timeout is not looked at.
TimeoutMsDefault(toolName) == DefaultToolTimeout

\* toolTimeout ?? this.defaultToolTimeout
TimeoutMs(toolName) ==
    IF GetToolByName(toolName).timeout = 0 THEN DefaultToolTimeout
    ELSE GetToolByName(toolName).timeout

\* A mutant: no timer is set.
InvokeClientToolNoTimer(b, i, tc) ==
    [b EXCEPT !.emitted = Append(@, Invocation(tc.toolName, tc.callId, tc.args, i)),
              !.listeners = @ \cup {[event |-> "tool_result", callId |-> tc.callId],
                                    [event |-> "tool_error", callId |-> tc.callId]}]

\* invokeClientTool up to the pending promise: the frame is sent, the two
\* listeners and the timer are installed.
InvokeClientTool(b, i, tc) ==
    [b EXCEPT !.emitted = Append(@, Invocation(tc.toolName, tc.callId, tc.args, i)),
              !.listeners = @ \cup {[event |-> "tool_result", callId |-> tc.callId],
                                    [event |-> "tool_error", callId |-> tc.callId]},
              !.timers = @ \cup {[callId |-> tc.callId, ms |-> TimeoutMs(tc.toolName)]}]

\* A mutant: the ghost check is skipped.
RECURSIVE DispatchNoGhostCheck(_, _, _)
DispatchNoGhostCheck(b, i, k) ==
    IF k > Len(b.lp.toolCalls)
    THEN [b EXCEPT !.lp.pc = "saveTools", !.lp.k = 0, !.save = TRUE]
    ELSE LET tc == b.lp.toolCalls[k]
             seen == [b EXCEPT !.dispatched =
                         Append(@, [callId |-> tc.callId,
                                    available |-> IsToolAvailable(tc.toolName, currentContext)])]
         IN  IF tc.toolName \notin ToolNames
             THEN DispatchNoGhostCheck(Push(seen, i, ToolEntry(tc.callId, VStr(GhostError))), i, k + 1)
             ELSE IF GetToolByName(tc.toolName).executionSide = "server"
                     /\ GetToolByName(tc.toolName).handler
             THEN [seen EXCEPT !.lp.pc = "handler", !.lp.k = k, !.lp.handed = currentContext,
                               !.handlerCalls = Append(@, [callId |-> tc.callId, toolName |-> tc.toolName])]
             ELSE [InvokeClientTool(seen, i, tc) EXCEPT !.lp.pc = "waitClient", !.lp.k = k]

\* A mutant: availability is read off the list computed when the turn began.
RECURSIVE DispatchStale(_, _, _)
DispatchStale(b, i, k) ==
    IF k > Len(b.lp.toolCalls)
    THEN [b EXCEPT !.lp.pc = "saveTools", !.lp.k = 0, !.save = TRUE]
    ELSE LET tc == b.lp.toolCalls[k]
             listed == \E j \in 1..Len(b.lp.availableTools) :
                          b.lp.availableTools[j] = tc.toolName
             seen == [b EXCEPT !.dispatched =
                         Append(@, [callId |-> tc.callId, available |-> listed])]
         IN  IF ~listed
             THEN DispatchStale(Push(seen, i, ToolEntry(tc.callId, VStr(GhostError))), i, k + 1)
             ELSE IF GetToolByName(tc.toolName).executionSide = "server"
                     /\ GetToolByName(tc.toolName).handler
             THEN [seen EXCEPT !.lp.pc = "handler", !.lp.k = k, !.lp.handed = currentContext,
                               !.handlerCalls = Append(@, [callId |-> tc.callId, toolName |-> tc.toolName])]
             ELSE [InvokeClientTool(seen, i, tc) EXCEPT !.lp.pc = "waitClient", !.lp.k = k]

\* A mutant: the frame of the call after a client call is sent along with it.
RECURSIVE DispatchAhead(_, _, _)
DispatchAhead(b, i, k) ==
    IF k > Len(b.lp.toolCalls)
    THEN [b EXCEPT !.lp.pc = "saveTools", !.lp.k = 0, !.save = TRUE]
    ELSE LET tc == b.lp.toolCalls[k]
             seen == [b EXCEPT !.dispatched =
                         Append(@, [callId |-> tc.callId,
                                    available |-> IsToolAvailable(tc.toolName, currentContext)])]
             invoked == [InvokeClientTool(seen, i, tc) EXCEPT !.lp.pc = "waitClient", !.lp.k = k]
         IN  IF ~IsToolAvailable(tc.toolName, currentContext)
             THEN DispatchAhead(Push(seen, i, ToolEntry(tc.callId, VStr(GhostError))), i, k + 1)
             ELSE IF GetToolByName(tc.toolName).executionSide = "server"
                     /\ GetToolByName(tc.toolName).handler
             THEN [seen EXCEPT !.lp.pc = "handler", !.lp.k = k, !.lp.handed = currentContext,
                               !.handlerCalls = Append(@, [callId |-> tc.callId, toolName |-> tc.toolName])]
             ELSE IF k < Len(b.lp.toolCalls)
             THEN [invoked EXCEPT !.emitted =
                      Append(@, Invocation(b.lp.toolCalls[k + 1].toolName,
                                           b.lp.toolCalls[k + 1].callId,
                                           b.lp.toolCalls[k + 1].args, i))]
             ELSE invoked

\* A mutant: an available tool is invoked on the client whatever its side.
RECURSIVE DispatchToClient(_, _, _)
DispatchToClient(b, i, k) ==
    IF k > Len(b.lp.toolCalls)
    THEN [b EXCEPT !.lp.pc = "saveTools", !.lp.k = 0, !.save = TRUE]
    ELSE LET tc == b.lp.toolCalls[k]
             seen == [b EXCEPT !.dispatched =
                         Append(@, [callId |-> tc.callId,
                                    available |-> IsToolAvailable(tc.toolName, currentContext)])]
         IN  IF ~IsToolAvailable(tc.toolName, currentContext)
             THEN DispatchToClient(Push(seen, i, ToolEntry(tc.callId, VStr(GhostError))), i, k + 1)
             ELSE [InvokeClientTool(seen, i, tc) EXCEPT !.lp.pc = "waitClient", !.lp.k = k]

\* The body of `for (const tc of toolCalls)` from the k-th call on, up to the
\* next await: a call whose tool is not available gets its error entry at
\* once; a server tool's handler is called with the current context; a client
\* tool is invoked over the socket.  After the last call saveState is called.
RECURSIVE Dispatch(_, _, _)
Dispatch(b, i, k) ==
    IF k > Len(b.lp.toolCalls)
    THEN [b EXCEPT !.lp.pc = "saveTools", !.lp.k = 0, !.save = TRUE]
    ELSE LET tc == b.lp.toolCalls[k]
             seen == [b EXCEPT !.dispatched =
                         Append(@, [callId |-> tc.callId,
                                    available |-> IsToolAvailable(tc.toolName, currentContext)])]
         IN  IF ~IsToolAvailable(tc.toolName, currentContext)
             THEN Dispatch(Push(seen, i, ToolEntry(tc.callId, VStr(GhostError))), i, k + 1)
             ELSE IF GetToolByName(tc.toolName).executionSide = "server"
                     /\ GetToolByName(tc.toolName).handler
             THEN [seen EXCEPT !.lp.pc = "handler", !.lp.k = k, !.lp.handed = currentContext,
                               !.handlerCalls = Append(@, [callId |-> tc.callId, toolName |-> tc.toolName])]
             ELSE [InvokeClientTool(seen, i, tc) EXCEPT !.lp.pc = "waitClient", !.lp.k = k]

\* The two kinds of storage: one that stores what a set call carries when
\* it is called, as InMemorySessionStorage does, and one that stores it when
\* the call completes, until when the call is in flight.
AtCall == "at call"
AtCompletion == "at completion"

\* The writer of the CONTEXT_UPDATE listener's saveState (loops write under
\* their own number).
ContextWriter == 0

\* this.storage.set(this.sessionId, data), called by writer by.
SaveState(by, data) ==
    IF storage = AtCall
    THEN stored' = data /\ writes' = writes
    ELSE stored' = stored /\ writes' = writes \cup {[by |-> by, data |-> data]}

\* The storage.set loop i awaits is in flight.
InFlight(i) == \E w \in writes : w.by = i

\* The block is committed to the state.
Commit(b, i) ==
    /\ messages' = b.messages
    /\ origin' = b.origin
    /\ emitted' = b.emitted
    /\ listeners' = b.listeners
    /\ timers' = b.timers
    /\ handlerCalls' = b.handlerCalls
    /\ dispatched' = b.dispatched
    /\ settled' = b.settled
    /\ loop' = [loop EXCEPT ![i] = b.lp]
    /\ IF b.save THEN SaveState(i, Snapshot(currentContext, b.messages))
       ELSE UNCHANGED <<stored, writes>>

\* ------------------------------------------------------------ the listeners

UserContents == {"hello"}

\* socket.on(USER_MESSAGE) with a payload UserMessageSchema accepts, and
\* handleUserMessage up to its await this.saveState().
UserMessage(content) ==
    /\ Started < MaxUserMessages
    /\ LET i == Started + 1
       IN  /\ messages' = Append(messages, UserEntry(content))
           /\ origin' = Append(origin, <<i, 0>>)
           /\ SaveState(i, Snapshot(currentContext, messages'))
           /\ loop' = [loop EXCEPT ![i] = [IdleLoop EXCEPT !.pc = "saveUser"]]
    /\ UNCHANGED <<currentContext, listeners, timers, emitted, lastSync, handlerCalls,
                   nextCallId, dispatched, settled, ignored, ignoredPending,
                   connection, storage, registry,
                   client, wire, sessions, sockets>>

\* socket.on(USER_MESSAGE) with a payload whose content is not a string.
InvalidUserMessage ==
    /\ ignored < MaxIgnored
    /\ ignored' = ignored + 1
    /\ UNCHANGED <<currentContext, messages, loop, listeners, timers, stored, emitted,
                   lastSync, handlerCalls, nextCallId, origin, dispatched, settled,
                   ignoredPending,
                   writes, connection, storage, registry,
                   client, wire, sessions, sockets>>

\* A mutant: the fields the payload leaves out keep their previous value.
ContextUpdateMerges(payload) ==
    /\ ClientContextSchemaOk(payload)
    /\ currentContext' =
           [f \in DOMAIN currentContext |->
               IF ParseContext(payload)[f] = Absent THEN currentContext[f]
               ELSE ParseContext(payload)[f]]
    /\ SaveState(ContextWriter, Snapshot(currentContext', messages))
    /\ lastSync' = [context |-> currentContext',
                    availableTools |-> GetToolsForContext(currentContext')]
    /\ UNCHANGED <<messages, loop, listeners, timers, emitted, handlerCalls, nextCallId,
                   origin, dispatched, settled, ignored, ignoredPending,
                   connection, storage, registry,
                   client, wire, sessions, sockets>>

\* socket.on(CONTEXT_UPDATE) with a payload ClientContextSchema accepts:
\* this.currentContext = parsed.data, saveState() not awaited, CONTEXT_SYNC.
OnContextUpdate(payload) ==
    /\ ClientContextSchemaOk(payload)
    /\ currentContext' = ParseContext(payload)
    /\ SaveState(ContextWriter, Snapshot(currentContext', messages))
    /\ lastSync' = [context |-> currentContext',
                    availableTools |-> GetToolsForContext(currentContext')]
    /\ UNCHANGED <<messages, loop, listeners, timers, emitted, handlerCalls, nextCallId,
                   origin, dispatched, settled, ignored,
                   ignoredPending,
                   connection, storage, registry, sessions, sockets>>

\* The listener on a payload from a client the model does not follow.
ContextUpdate(payload) ==
    /\ OnContextUpdate(payload)
    /\ UNCHANGED <<client, wire>>

\* A mutant: the listener logs the failure and goes on with the payload.
InvalidContextUpdateGoesOn(payload) ==
    /\ ~ClientContextSchemaOk(payload)
    /\ ignored < MaxIgnored
    /\ ignored' = ignored + 1
    /\ currentContext' = ParseContext(payload)
    /\ SaveState(ContextWriter, Snapshot(currentContext', messages))
    /\ lastSync' = [context |-> currentContext',
                    availableTools |-> GetToolsForContext(currentContext')]
    /\ UNCHANGED <<messages, loop, listeners, timers, emitted, handlerCalls, nextCallId,
                   origin, dispatched, settled, ignoredPending, connection, storage, registry,
                   client, wire, sessions, sockets>>

\* socket.on(CONTEXT_UPDATE) with a payload the schema rejects: logged, and
\* the listener returns.
InvalidContextUpdate(payload) ==
    /\ ~ClientContextSchemaOk(payload)
    /\ ignored < MaxIgnored
    /\ ignored' = ignored + 1
    /\ UNCHANGED <<currentContext, messages, loop, listeners, timers, stored, emitted,
                   lastSync, handlerCalls, nextCallId, origin, dispatched, settled,
                   ignoredPending,
                   writes, connection, storage, registry,
                   client, wire, sessions, sockets>>

\* ------------------------------------------------------ the loop's blocks

\* handleUserMessage resumes from saveState and enters runAgentLoop: the
\* first turn begins and the provider is called.
AfterSaveUser(i) ==
    /\ loop[i].pc = "saveUser"
    /\ ~InFlight(i)
    /\ loop' = [loop EXCEPT ![i] = BeginTurn(@, currentContext)]
    /\ UNCHANGED <<currentContext, messages, listeners, timers, stored, emitted, lastSync,
                   handlerCalls, nextCallId, origin, dispatched, settled, ignored,
                   ignoredPending,
                   writes, connection, storage, registry,
                   client, wire, sessions, sockets>>

\* provider.run resolves with events: the frames of the text events are sent;
\* an error event ends the loop with the error frame; otherwise the assistant
\* entry is pushed and saveState called.
ProviderReturns(i, events) ==
    /\ loop[i].pc = "provider"
    /\ nextCallId' = nextCallId + CountCalls(events)
    /\ LET r == ProcessEvents(events, NoEvents, i)
       IN  IF r.failed
           THEN /\ emitted' = emitted \o r.frames
                                \o <<Response(ErrorText(r.thrown), TRUE, NoActions, i)>>
                /\ loop' = [loop EXCEPT ![i] = Finish([@ EXCEPT !.events = events])]
                /\ UNCHANGED <<messages, origin, stored, writes>>
           ELSE /\ emitted' = emitted \o r.frames
                /\ messages' = Append(messages, AssistantEntry(r.text, r.toolCalls))
                /\ origin' = Append(origin, <<i, loop[i].turns>>)
                /\ SaveState(i, Snapshot(currentContext, messages'))
                /\ loop' = [loop EXCEPT ![i].pc = "saveAssistant",
                                        ![i].events = events,
                                        ![i].toolCalls = r.toolCalls,
                                        ![i].suggestedActions = r.suggestedActions]
    /\ UNCHANGED <<currentContext, listeners, timers, lastSync, handlerCalls, dispatched,
                   settled, ignored, ignoredPending,
                   connection, storage, registry,
                   client, wire, sessions, sockets>>

\* provider.run rejects with an Error.
ProviderRejects(i) ==
    /\ loop[i].pc = "provider"
    /\ emitted' = Append(emitted, Response(ErrorText(VError("provider unreachable")), TRUE, NoActions, i))
    /\ loop' = [loop EXCEPT ![i] = Finish([@ EXCEPT !.rejected = TRUE])]
    /\ UNCHANGED <<currentContext, messages, listeners, timers, stored, lastSync,
                   handlerCalls, nextCallId, origin, dispatched, settled, ignored,
                   ignoredPending,
                   writes, connection, storage, registry,
                   client, wire, sessions, sockets>>

\* The loop resumes after the assistant entry is saved: without tool calls
\* the terminal frame is sent and the loop returns, otherwise the calls are
\* dispatched.
AfterSaveAssistant(i) ==
    /\ loop[i].pc = "saveAssistant"
    /\ ~InFlight(i)
    /\ IF loop[i].toolCalls = <<>>
       THEN Commit([Block(Finish(loop[i])) EXCEPT
                       !.emitted = Append(@, Response("", TRUE, loop[i].suggestedActions, i))], i)
       ELSE Commit(Dispatch(Block(loop[i]), i, 1), i)
    /\ UNCHANGED <<currentContext, lastSync, nextCallId, ignored, ignoredPending,
                   connection, storage, registry,
                   client, wire, sessions, sockets>>

\* What the handler of a server tool returns.
HandlerResult(toolName, args, context) ==
    IF toolName = "get_current_context" THEN CtxValue(context)
    ELSE VStr("Weather in " \o Lookup(args.fields, "city").lit \o " is sunny")

\* A mutant: the value is the content as it is.
ServerContentRaw(validated) ==
    IF validated.success THEN validated.data
    ELSE VObj(<< <<"error", VStr(validated.error)>> >>)

\* The content of the tool entry of a result that went through validateResult.
ServerContent(validated) ==
    StringifyContent(IF validated.success THEN validated.data
                     ELSE VObj(<< <<"error", VStr(validated.error)>> >>))

\* The handler of a server tool resolves: its value goes through
\* validateResult into the tool entry, and the dispatch goes on.
HandlerReturns(i) ==
    /\ loop[i].pc = "handler"
    /\ LET lp == loop[i]
           tc == lp.toolCalls[lp.k]
           validated == ValidateResult(tc.toolName, HandlerResult(tc.toolName, tc.args, lp.handed))
           b == Push(Block([lp EXCEPT !.handed = EmptyContext]), i,
                     ToolEntry(tc.callId, ServerContent(validated)))
       IN  Commit(Dispatch(b, i, lp.k + 1), i)
    /\ UNCHANGED <<currentContext, lastSync, nextCallId, ignored, ignoredPending,
                   connection, storage, registry,
                   client, wire, sessions, sockets>>

\* A mutant: the catch pushes the error entry and the loop returns.
CaughtAborts(b, i, e) ==
    [Push(b, i, ToolEntry(b.lp.toolCalls[b.lp.k].callId, VStr(ErrorText(e))))
        EXCEPT !.lp = Finish(b.lp)]

\* A mutant: the catch swallows the error without an entry.
CaughtNoEntry(b, i, e) == Dispatch(b, i, b.lp.k + 1)

\* The dispatch of the awaited call threw e: the catch pushes the error entry,
\* and the dispatch goes on with the next call.
Caught(b, i, e) ==
    Dispatch(Push(b, i, ToolEntry(b.lp.toolCalls[b.lp.k].callId, VStr(ErrorText(e)))),
             i, b.lp.k + 1)

\* The handler of a server tool rejects (get_current_context cannot).
HandlerThrows(i) ==
    /\ loop[i].pc = "handler"
    /\ loop[i].toolCalls[loop[i].k].toolName # "get_current_context"
    /\ Commit(Caught(Block([loop[i] EXCEPT !.handed = EmptyContext]), i,
                     VError("Cannot read properties of null")), i)
    /\ UNCHANGED <<currentContext, lastSync, nextCallId, ignored, ignoredPending,
                   connection, storage, registry,
                   client, wire, sessions, sockets>>

\* -------------------------------------------------- the client-tool waiter

\* The values a client may send as the result of toggleDarkMode.
ClientResults ==
    { VObj(<< <<"darkMode", VBool(TRUE)>>, <<"theme", VStr("dark")>> >>),
      VObj(<< <<"darkMode", VStr("yes")>> >>) }

\* tool_result payloads; a toolId that is no string fails ToolResultSchema.
ToolResultPayloads ==
    [toolId : {"toggleDarkMode", NotAString}, callId : 0..(nextCallId - 1),
     result : ClientResults]

\* tool_error payloads; a toolId that is no string fails ToolErrorSchema.
ToolErrorPayloads ==
    [toolId : {"toggleDarkMode", NotAString}, callId : 0..(nextCallId - 1),
     message : {"Element not found"}]

\* ToolResultSchema.safeParse(payload).success, and ToolErrorSchema's
ReplySchemaOk(payload) == payload.toolId # NotAString

\* The loop whose invokeClientTool promise the listeners of callId settle.
Waiting(i, callId) ==
    /\ loop[i].pc = "waitClient"
    /\ loop[i].toolCalls[loop[i].k].callId = callId

\* A mutant: only the listener that took the reply is removed.
SettleKeepsOther(b, callId, by, reply) ==
    [b EXCEPT !.listeners = {l \in @ : l.callId # callId \/ l.event # by},
              !.timers = {t \in @ : t.callId # callId},
              !.settled = Append(@, [callId |-> callId, by |-> by, reply |-> reply])]

\* socket.off of both listeners and the end of the timer, when the waiter of
\* callId is settled by a reply or by its timer.
Settle(b, callId, by, reply) ==
    [b EXCEPT !.listeners = {l \in @ : l.callId # callId},
              !.timers = {t \in @ : t.callId # callId},
              !.settled = Append(@, [callId |-> callId, by |-> by, reply |-> reply])]

\* A mutant: a listener takes a reply whatever its callId.
AcceptsAnyCallId(event, payload, callId) ==
    /\ [event |-> event, callId |-> callId] \in listeners
    /\ ReplySchemaOk(payload)

\* onResult / onError installed for callId takes the payload.
Accepts(event, payload, callId) ==
    /\ [event |-> event, callId |-> callId] \in listeners
    /\ ReplySchemaOk(payload)
    /\ payload.callId = callId

\* A mutant: the client's value goes into the history as it came.
ClientEntryUnchecked(toolName, result) ==
    ToolEntry(result.callId, VStr(JSONStringify(result.result)))

\* A mutant: the result is validated as a result of the tool the reply names.
ClientEntryByReply(toolName, result) ==
    LET validated == ValidateResult(result.toolId, result.result)
    IN  IF ~validated.success
        THEN ToolEntry(result.callId,
                 VStr(JSONStringify(VObj(<< <<"error",
                     VStr("Result validation failed: " \o validated.error)>> >>))))
        ELSE ToolEntry(result.callId, StringifyContent(validated.data))

\* The tool entry of a client result.
ClientEntry(toolName, result) ==
    LET validated == ValidateResult(toolName, result.result)
    IN  IF ~validated.success
        THEN ToolEntry(result.callId,
                 VStr(JSONStringify(VObj(<< <<"error",
                     VStr("Result validation failed: " \o validated.error)>> >>))))
        ELSE ToolEntry(result.callId, StringifyContent(validated.data))

\* A tool_result payload arrives and onResult of loop i's waiter takes it: the
\* promise resolves, the result is validated into the tool entry, and the
\* dispatch goes on.
ToolResult(i, payload) ==
    /\ loop[i].pc = "waitClient"
    /\ LET lp == loop[i]
           tc == lp.toolCalls[lp.k]
       IN  /\ Accepts("tool_result", payload, tc.callId)
           /\ Commit(Dispatch(Push(Settle(Block(lp), tc.callId, "tool_result", payload), i,
                                   ClientEntry(tc.toolName, payload)),
                              i, lp.k + 1), i)
    /\ UNCHANGED <<currentContext, lastSync, nextCallId, ignored, ignoredPending,
                   connection, storage, registry,
                   client, wire, sessions, sockets>>

\* A tool_error payload arrives and onError of loop i's waiter takes it: the
\* promise rejects with new Error(message).
ToolError(i, payload) ==
    /\ loop[i].pc = "waitClient"
    /\ LET lp == loop[i]
           tc == lp.toolCalls[lp.k]
       IN  /\ Accepts("tool_error", payload, tc.callId)
           /\ Commit(Caught(Settle(Block(lp), tc.callId, "tool_error", payload), i,
                            VError(payload.message)), i)
    /\ UNCHANGED <<currentContext, lastSync, nextCallId, ignored, ignoredPending,
                   connection, storage, registry,
                   client, wire, sessions, sockets>>

\* The payloads of a reply event.
ReplyPayloads(event) ==
    IF event = "tool_result" THEN ToolResultPayloads ELSE ToolErrorPayloads

\* A tool_result or tool_error payload arrives that no installed listener
\* takes: nothing happens.
DroppedReply(event) ==
    /\ ignored < MaxIgnored
    /\ \E payload \in ReplyPayloads(event) :
          \A l \in listeners : ~Accepts(event, payload, l.callId)
    /\ ignored' = ignored + 1
    /\ ignoredPending' = ignoredPending \cup {l.callId : l \in listeners}
    /\ UNCHANGED <<currentContext, messages, loop, listeners, timers, stored, emitted,
                   lastSync, handlerCalls, nextCallId, origin, dispatched, settled,
                   writes, connection, storage, registry,
                   client, wire, sessions, sockets>>

\* The timer of loop i's waiter fires: the promise rejects with the timeout
\* error.
Timeout(i) ==
    /\ loop[i].pc = "waitClient"
    /\ LET lp == loop[i]
           tc == lp.toolCalls[lp.k]
       IN  \E t \in timers :
              /\ t.callId = tc.callId
              /\ Commit(Caught(Settle(Block(lp), tc.callId, "timeout", t), i,
                               VError("Tool Timeout (" \o ToString(t.ms) \o "ms)")), i)
    /\ UNCHANGED <<currentContext, lastSync, nextCallId, ignored, ignoredPending,
                   connection, storage, registry,
                   client, wire, sessions, sockets>>

\* The loop resumes after the tool entries are saved: the next turn begins,
\* or the loop returns when MAX_TURNS turns have run.
AfterSaveTools(i) ==
    /\ loop[i].pc = "saveTools"
    /\ ~InFlight(i)
    /\ loop' = [loop EXCEPT ![i] = BeginTurn(@, currentContext)]
    /\ UNCHANGED <<currentContext, messages, listeners, timers, stored, emitted, lastSync,
                   handlerCalls, nextCallId, origin, dispatched, settled, ignored,
                   ignoredPending,
                   writes, connection, storage, registry,
                   client, wire, sessions, sockets>>

\* ------------------------------------------------ the socket and the storage

\* The number of calls of provider.run so far: one a turn.
RECURSIVE ProviderRuns(_)
ProviderRuns(n) == IF n = 0 THEN 0 ELSE ProviderRuns(n - 1) + loop[n].turns

\* What the session has done so far: its calls of provider.run, the tools it
\* dispatched and the frames it emitted.
DoneSoFar ==
    [providerRuns |-> ProviderRuns(MaxUserMessages),
     dispatched |-> Len(dispatched),
     emitted |-> Len(emitted)]

\* The socket of a session that is connected; at holds, once it is not, what
\* the session had done when it disconnected.
Connected ==
    [state |-> "connected", at |-> [providerRuns |-> 0, dispatched |-> 0, emitted |-> 0]]

\* socket.on("disconnect"): the session leaves the sessions map of the
\* server.  Nothing of the session is told: its listeners, its timers and
\* its loops stay as they are.
Disconnect ==
    /\ connection.state = "connected"
    /\ connection' = [state |-> "disconnected", at |-> DoneSoFar]
    /\ UNCHANGED <<currentContext, messages, loop, listeners, timers, stored, emitted,
                   lastSync, handlerCalls, nextCallId, origin, dispatched, settled,
                   ignored, ignoredPending, storage, registry, writes,
                   client, wire, sessions, sockets>>

\* What storage.get answers: the data of the last set.  InMemorySessionStorage
\* keeps the object it was given, whose messages are the array the session
\* goes on pushing to; a storage that stores at completion keeps a copy.
StorageGet ==
    IF storage = AtCall THEN Snapshot(stored.context, messages) ELSE stored

\* A connection with the sessionId of the disconnected session: the
\* constructor and initialize() of its ClientSession, which storage holds
\* data for.  From here on the variables are the new session's.
Reconnect ==
    /\ connection.state = "disconnected"
    /\ connection' = [connection EXCEPT !.state = "reconnected"]
    /\ LET data == StorageGet
       IN  /\ currentContext' = data.context
           /\ messages' = data.messages
           /\ origin' = SubSeq(origin, 1, Len(data.messages))
    /\ loop' = [i \in Loops |-> IdleLoop]
    /\ listeners' = {}
    /\ timers' = {}
    /\ emitted' = <<>>
    /\ lastSync' = [context |-> EmptyContext, availableTools |-> <<>>]
    /\ UNCHANGED <<stored, handlerCalls, nextCallId, dispatched, settled, ignored,
                   ignoredPending, storage, registry, writes,
                   client, wire, sessions, sockets>>

\* A storage.set in flight completes: the storage holds what it carried.
WriteCompletes(w) ==
    /\ w \in writes
    /\ writes' = writes \ {w}
    /\ stored' = w.data
    /\ UNCHANGED <<currentContext, messages, loop, listeners, timers, emitted, lastSync,
                   handlerCalls, nextCallId, origin, dispatched, settled, ignored,
                   ignoredPending, storage, registry, connection,
                   client, wire, sessions, sockets>>

\* A storage.set in flight rejects.  The CONTEXT_UPDATE listener catches and
\* logs it; handleUserMessage and runAgentLoop do not: the rejection leaves
\* the loop through the USER_MESSAGE listener, which nothing awaits.
WriteFails(w) ==
    /\ w \in writes
    /\ writes' = writes \ {w}
    /\ loop' = IF w.by = ContextWriter THEN loop
               ELSE [loop EXCEPT ![w.by] = [Finish(@) EXCEPT !.pc = "aborted"]]
    /\ UNCHANGED <<currentContext, messages, listeners, timers, stored, emitted, lastSync,
                   handlerCalls, nextCallId, origin, dispatched, settled, ignored,
                   ignoredPending, storage, registry, connection,
                   client, wire, sessions, sockets>>

\* ------------------------------------------------------------- the registry

\* The definitions registered in SpecRegistry: four names, each as a tool of
\* its page and as a tool of every page with a timeout of its own; the
\* resultSchema of addTodo is z.string(), with an async refinement in its
\* second definition.
Definitions ==
    { Tool("toggleDarkMode", "client", "settings", "darkMode:boolean"),
      WithTimeout(Tool("toggleDarkMode", "client", Absent, "none"), 50),
      Tool("listTodos", "client", "todos", "none"),
      WithTimeout(Tool("listTodos", "client", Absent, "none"), 50),
      Tool("searchWeather", "server", "settings", "none"),
      WithTimeout(Tool("searchWeather", "server", Absent, "none"), 50),
      Tool("addTodo", "client", "todos", "string"),
      WithTimeout(Tool("addTodo", "client", Absent, "async:string"), 50) }

\* The arrays registerAll is given and the tools of the routers use is given.
ToolLists == {<<a, b>> : a \in Definitions, b \in Definitions}

\* ToolRegistry.registerAll(list)
RegisterAll(list) ==
    /\ Len(registry.calls) + Len(list) <= MaxRegistered
    /\ registry' = [tools |-> RegisterAllTools(registry.tools, list),
                    calls |-> registry.calls \o list]
    /\ UNCHANGED <<currentContext, messages, loop, listeners, timers, stored, emitted,
                   lastSync, handlerCalls, nextCallId, origin, dispatched, settled,
                   ignored, ignoredPending, storage, writes, connection,
                   client, wire, sessions, sockets>>

\* ToolRegistry.register(tool)
Register(tool) ==
    /\ Len(registry.calls) < MaxRegistered
    /\ registry' = [tools |-> RegisterTool(registry.tools, tool),
                    calls |-> Append(registry.calls, tool)]
    /\ UNCHANGED <<currentContext, messages, loop, listeners, timers, stored, emitted,
                   lastSync, handlerCalls, nextCallId, origin, dispatched, settled,
                   ignored, ignoredPending, storage, writes, connection,
                   client, wire, sessions, sockets>>

\* ToolRegistry.use(router): this.registerAll(router.tools); return this
Use(router) ==
    /\ Len(registry.calls) + Len(router) <= MaxRegistered
    /\ registry' = [tools |-> RegisterAllTools(registry.tools, router),
                    calls |-> registry.calls \o router]
    /\ UNCHANGED <<currentContext, messages, loop, listeners, timers, stored, emitted,
                   lastSync, handlerCalls, nextCallId, origin, dispatched, settled,
                   ignored, ignoredPending, storage, writes, connection,
                   client, wire, sessions, sockets>>

\* --------------------------------------------------------------- the client

\* The variables of the session, and those of the facade.
sessionVars == <<currentContext, messages, loop, listeners, timers, stored, emitted,
                 lastSync, handlerCalls, nextCallId, origin, dispatched, settled,
                 ignored, ignoredPending, storage, writes, connection, registry>>
facadeVars == <<sessions, sockets>>

\* config.defaultToolTimeout || 30000
ClientToolTimeout == 30000

\* A frame the client emits: context_update carries the context in payload,
\* tool_result the result, tool_error the message.
ClientFrame(event, toolId, callId, payload) ==
    [event |-> event, toolId |-> toolId, callId |-> callId, payload |-> payload]

\* AgentClient.getMergedContext()
GetMergedContext == GetMergedContextOf(client.contextScopes)

\* executors.get(toolId), on the Map executors
ExecutorsGet(executors, toolId) ==
    IF \E j \in 1..Len(executors) : executors[j].toolId = toolId
    THEN executors[CHOOSE j \in 1..Len(executors) : executors[j].toolId = toolId].func
    ELSE Absent

\* A mutant: an id that has an executor keeps it.
ExecutorsSetKeepsFirst(executors, toolId, func) ==
    IF \E j \in 1..Len(executors) : executors[j].toolId = toolId THEN executors
    ELSE Append(executors, [toolId |-> toolId, func |-> func])

\* executors.set(toolId, func)
ExecutorsSet(executors, toolId, func) ==
    IF \E j \in 1..Len(executors) : executors[j].toolId = toolId
    THEN [j \in 1..Len(executors) |->
             IF executors[j].toolId = toolId THEN [toolId |-> toolId, func |-> func]
             ELSE executors[j]]
    ELSE Append(executors, [toolId |-> toolId, func |-> func])

\* executors.delete(toolId)
ExecutorsDelete(executors, toolId) ==
    LET Other(entry) == entry.toolId # toolId
    IN  SelectSeq(executors, Other)

\* error instanceof Error ? error.message : JSON.stringify(error)
ClientErrorMessage(error) ==
    IF error.tag = "Error" THEN VStr(error.lit) ELSE StringifyContent(error)

\* The message the timer of handleInvocation rejects with.
ClientTimeoutMessage ==
    VStr("Client-side tool execution timed out after "
            \o ToString(ClientToolTimeout) \o "ms.")

\* The connections the server has accepted from the client so far.
Accepted == IF connection.state = "reconnected" THEN 2 ELSE 1

\* socket.on("connect"), on a connection the server accepted and the client
\* has had no connect event for yet: the socket is connected; the merged
\* context is emitted when it has a key.
ClientConnect ==
    /\ ~client.connected
    /\ connection.state # "disconnected"
    /\ client.connects < Accepted
    /\ client' = [client EXCEPT !.connected = TRUE, !.connects = @ + 1]
    /\ wire' = IF Cardinality(ObjectKeys(GetMergedContext)) > 0
               THEN Append(wire, ClientFrame("context_update", Absent, 0, GetMergedContext))
               ELSE wire
    /\ UNCHANGED <<sessionVars, facadeVars>>

\* The client's socket learns that the connection is lost.
ClientDisconnect ==
    /\ client.connected
    /\ client' = [client EXCEPT !.connected = FALSE]
    /\ UNCHANGED <<wire, sessionVars, facadeVars>>

\* emitMergedContext() once the scopes are scopes
EmitMergedContext(scopes) ==
    wire' = IF client.connected
            THEN Append(wire, ClientFrame("context_update", Absent, 0,
                                          GetMergedContextOf(scopes)))
            ELSE wire

\* AgentClient.setContext(scope, context)
SetContext(scope, context) ==
    /\ client' = [client EXCEPT
          !.contextScopes = ScopesSet(@, scope, context),
          !.lastCall = ScopedCall("set", scope, scope \notin ScopeKeys(client.contextScopes),
                                  client.contextScopes)]
    /\ EmitMergedContext(ScopesSet(client.contextScopes, scope, context))
    /\ UNCHANGED <<sessionVars, facadeVars>>

\* AgentClient.removeContext(scope)
RemoveContext(scope) ==
    /\ client' = [client EXCEPT
          !.contextScopes = ScopesDelete(@, scope),
          !.lastCall =
              IF @.op = "set" /\ @.scope = scope /\ @.fresh
              THEN ScopedCall("remove", scope, TRUE, @.before)
              ELSE ScopedCall("remove", scope, FALSE, client.contextScopes)]
    /\ EmitMergedContext(ScopesDelete(client.contextScopes, scope))
    /\ UNCHANGED <<sessionVars, facadeVars>>

\* AgentClient.registerExecutor(toolId, func)
RegisterExecutor(toolId, func) ==
    /\ client' = [client EXCEPT
          !.executors = IF ExecutorsGet(@, toolId) = func THEN @
                        ELSE ExecutorsSet(@, toolId, func),
          !.lastExecutorCall = ExecutorCall("register", toolId, func)]
    /\ UNCHANGED <<wire, sessionVars, facadeVars>>

\* AgentClient.unregisterExecutor(toolId)
UnregisterExecutor(toolId) ==
    /\ client' = [client EXCEPT
          !.executors = ExecutorsDelete(@, toolId),
          !.lastExecutorCall = ExecutorCall("unregister", toolId, Absent)]
    /\ UNCHANGED <<wire, sessionVars, facadeVars>>

\* An activation of handleInvocation: the executor it found, the timer it
\* set, the promise the executor returned and the race it awaits.
Activation(toolId, callId, executor, timer, promise, race) ==
    [toolId |-> toolId, callId |-> callId, executor |-> executor,
     timer |-> timer, promise |-> promise, race |-> race]

\* What handleInvocation is given for thrown when the executor returns.
Returns == Prim("returns", "")

\* socket.on(TOOL_INVOCATION) with a payload ToolInvocationSchema accepts, and
\* handleInvocation up to its await.  Without executor the tool_error is
\* emitted at once.  With one the timer is set and the executor is called:
\* when it throws (thrown is what it throws) the catch emits the tool_error,
\* and the timer stays set; when it returns, the race is awaited.
HandleInvocation(toolId, callId, thrown) ==
    LET executor == ExecutorsGet(client.executors, toolId)
    IN  /\ executor = Absent => thrown = Returns
        /\ client' = [client EXCEPT !.invocations = Append(@,
              IF executor = Absent
              THEN Activation(toolId, callId, Absent, "none", "none", "none")
              ELSE IF thrown # Returns
              THEN Activation(toolId, callId, executor, "set", "none", "none")
              ELSE Activation(toolId, callId, executor, "set", "pending", "pending"))]
        /\ wire' =
              IF executor = Absent
              THEN Append(wire, ClientFrame("tool_error", toolId, callId,
                      VStr("Tool \"" \o toolId
                              \o "\" is not available in the current client version")))
              ELSE IF thrown # Returns
              THEN Append(wire, ClientFrame("tool_error", toolId, callId,
                                            ClientErrorMessage(thrown)))
              ELSE wire
        /\ UNCHANGED <<sessionVars, facadeVars>>

\* socket.on(TOOL_INVOCATION) with a payload ToolInvocationSchema rejects: it
\* is logged, and nothing else.
InvalidInvocation ==
    /\ client.dropped < MaxIgnored
    /\ client' = [client EXCEPT !.dropped = @ + 1]
    /\ UNCHANGED <<wire, sessionVars, facadeVars>>

\* A mutant: the value is emitted whatever became of the race.
ExecutorResolvesAlways(k, value) ==
    /\ k \in 1..Len(client.invocations)
    /\ client.invocations[k].promise = "pending"
    /\ client' = [client EXCEPT !.invocations[k].promise = "settled",
                                !.invocations[k].race = "settled"]
    /\ wire' = Append(wire, ClientFrame("tool_result", client.invocations[k].toolId,
                                        client.invocations[k].callId, value))
    /\ UNCHANGED <<sessionVars, facadeVars>>

\* The promise of the executor of the k-th activation fulfils with value: the
\* race, when it is pending, fulfils, and the tool_result is emitted.
ExecutorResolves(k, value) ==
    /\ k \in 1..Len(client.invocations)
    /\ client.invocations[k].promise = "pending"
    /\ client' = [client EXCEPT !.invocations[k].promise = "settled",
                                !.invocations[k].race = "settled"]
    /\ wire' = IF client.invocations[k].race = "pending"
               THEN Append(wire, ClientFrame("tool_result", client.invocations[k].toolId,
                                             client.invocations[k].callId, value))
               ELSE wire
    /\ UNCHANGED <<sessionVars, facadeVars>>

\* The promise of the executor of the k-th activation rejects with error: the
\* race, when it is pending, rejects, and the catch emits the tool_error.
ExecutorRejects(k, error) ==
    /\ k \in 1..Len(client.invocations)
    /\ client.invocations[k].promise = "pending"
    /\ client' = [client EXCEPT !.invocations[k].promise = "settled",
                                !.invocations[k].race = "settled"]
    /\ wire' = IF client.invocations[k].race = "pending"
               THEN Append(wire, ClientFrame("tool_error", client.invocations[k].toolId,
                                             client.invocations[k].callId,
                                             ClientErrorMessage(error)))
               ELSE wire
    /\ UNCHANGED <<sessionVars, facadeVars>>

\* The timer of the k-th activation fires and rejects timeoutPromise: the
\* race, when it is pending, rejects, and the catch emits the tool_error.
\* The timer is never cleared, so it fires whatever became of the executor.
ClientTimeout(k) ==
    /\ k \in 1..Len(client.invocations)
    /\ client.invocations[k].timer = "set"
    /\ client' = [client EXCEPT !.invocations[k].timer = "fired",
                                !.invocations[k].race =
                                    IF @ = "pending" THEN "settled" ELSE @]
    /\ wire' = IF client.invocations[k].race = "pending"
               THEN Append(wire, ClientFrame("tool_error", client.invocations[k].toolId,
                                             client.invocations[k].callId,
                                             ClientTimeoutMessage))
               ELSE wire
    /\ UNCHANGED <<sessionVars, facadeVars>>

\* The server's CONTEXT_UPDATE listener on the oldest frame of the client.
DeliverContextUpdate ==
    /\ connection.state # "disconnected"
    /\ wire # <<>>
    /\ Head(wire).event = "context_update"
    /\ OnContextUpdate(Head(wire).payload)
    /\ wire' = Tail(wire)
    /\ UNCHANGED client

\* The frames in flight on a connection that is lost never arrive.
FramesLost ==
    /\ connection.state = "disconnected"
    /\ wire # <<>>
    /\ wire' = <<>>
    /\ UNCHANGED <<client, sessionVars, facadeVars>>

\* --------------------------------------------------------------- the facade

\* A connection of the facade: the socket (up until its disconnect event) and
\* where the async connection handler is: awaiting session.initialize(), or
\* done, the session in the map and the disconnect listener on the socket.
Socket(up, pc) == [up |-> up, pc |-> pc]

\* io.on("connection") for a new socket, whose id is its rank: the session is
\* constructed and initialize() is called.  Over InMemorySessionStorage the
\* awaits of initialize are settled promises, and the handler goes on to its
\* end before any other event; over a storage that answers later the handler
\* stays at the await.
Connection ==
    /\ Len(sockets) < MaxSockets
    /\ IF storage = AtCall
       THEN /\ sockets' = Append(sockets, Socket(TRUE, "done"))
            /\ sessions' = sessions \cup {Len(sockets) + 1}
       ELSE /\ sockets' = Append(sockets, Socket(TRUE, "initialize"))
            /\ sessions' = sessions
    /\ UNCHANGED <<sessionVars, client, wire>>

\* session.initialize() returns to the handler of socket id:
\* this.sessions.set(socket.id, session), then socket.on("disconnect", ...).
InitializeReturns(id) ==
    /\ id \in 1..Len(sockets)
    /\ sockets[id].pc = "initialize"
    /\ sockets' = [sockets EXCEPT ![id].pc = "done"]
    /\ sessions' = sessions \cup {id}
    /\ UNCHANGED <<sessionVars, client, wire>>

\* The disconnect event of socket id: the listeners the socket has by then are
\* called, the facade's, which deletes the entry, among them once the handler
\* is done.
SocketDisconnect(id) ==
    /\ id \in 1..Len(sockets)
    /\ sockets[id].up
    /\ sockets' = [sockets EXCEPT ![id].up = FALSE]
    /\ sessions' = IF sockets[id].pc = "done" THEN sessions \ {id} ELSE sessions
    /\ UNCHANGED <<sessionVars, client, wire>>

\* ------------------------------------------------------------ specification

\* What storage.get answers for a sessionId it holds nothing for: null, kept
\* as a value that no saveState stores.
Null == Snapshot(Ctx(NotAString, NotAString), <<>>)

\* The writer of initialize's saveState.
InitializeWriter == MaxUserMessages + 1

\* The origin of the entries of a restored history.
Restored(history) == [j \in 1..Len(history) |-> <<0, 0>>]

\* The session of the first socket has returned from initialize().
Initialized == sockets[1].pc = "done"

\* initialize() resumes from `await this.storage.get(this.sessionId)` with
\* what the storage holds when it answers: data replaces currentContext and
\* messages, and initialize returns to the connection handler; without data
\* the system entry is pushed onto messages and saveState is called.
GetResolves ==
    /\ sockets[1].pc = "initialize"
    /\ IF stored # Null
       THEN /\ currentContext' = stored.context
            /\ messages' = stored.messages
            /\ origin' = Restored(stored.messages)
            /\ sockets' = [sockets EXCEPT ![1].pc = "done"]
            /\ sessions' = sessions \cup {1}
            /\ UNCHANGED <<stored, writes>>
       ELSE /\ messages' = Append(messages, SystemEntry(DefaultSystemPrompt))
            /\ origin' = Append(origin, <<0, 0>>)
            /\ SaveState(InitializeWriter, Snapshot(currentContext, messages'))
            /\ sockets' = [sockets EXCEPT ![1].pc = "seed"]
            /\ UNCHANGED <<currentContext, sessions>>
    /\ UNCHANGED <<loop, listeners, timers, emitted, lastSync, handlerCalls, nextCallId,
                   dispatched, settled, ignored, ignoredPending, storage, connection,
                   registry, client, wire>>

\* initialize() resumes from its `await this.saveState()` and returns to the
\* connection handler.
SeedSaved ==
    /\ sockets[1].pc = "seed"
    /\ ~InFlight(InitializeWriter)
    /\ sockets' = [sockets EXCEPT ![1].pc = "done"]
    /\ sessions' = sessions \cup {1}
    /\ UNCHANGED <<sessionVars, client, wire>>

\* The connection handler at `await session.initialize()`: the constructor
\* has run (empty context, empty history, the listeners on the socket) and
\* initialize() awaits storage.get; held is what the storage holds.
Constructed(held) ==
    /\ currentContext = EmptyContext
    /\ messages = <<>>
    /\ origin = <<>>
    /\ loop = [i \in Loops |-> IdleLoop]
    /\ listeners = {}
    /\ timers = {}
    /\ stored = held
    /\ emitted = <<>>
    /\ lastSync = [context |-> EmptyContext, availableTools |-> <<>>]
    /\ handlerCalls = <<>>
    /\ nextCallId = 1
    /\ dispatched = <<>>
    /\ settled = <<>>
    /\ ignored = 0
    /\ ignoredPending = {}
    /\ storage = AtCompletion
    /\ registry = Built(Registry)
    /\ writes = {}
    /\ connection = Connected
    /\ client = NoClient
    /\ wire = <<>>
    /\ sessions = {}
    /\ sockets = <<Socket(TRUE, "initialize")>>

\* The session after the constructor and initialize() on a sessionId that
\* storage holds nothing for: the system entry is pushed and saved.  The
\* server's registry is the one the definitions of registered built.
SessionState(kind, registered) ==
    /\ currentContext = EmptyContext
    /\ messages = <<SystemEntry(DefaultSystemPrompt)>>
    /\ origin = << <<0, 0>> >>
    /\ loop = [i \in Loops |-> IdleLoop]
    /\ listeners = {}
    /\ timers = {}
    /\ stored = Snapshot(EmptyContext, messages)
    /\ emitted = <<>>
    /\ lastSync = [context |-> EmptyContext, availableTools |-> <<>>]
    /\ handlerCalls = <<>>
    /\ nextCallId = 1
    /\ dispatched = <<>>
    /\ settled = <<>>
    /\ ignored = 0
    /\ ignoredPending = {}
    /\ storage = kind
    /\ registry = Built(registered)
    /\ writes = {}
    /\ connection = Connected

\* A session whose client and whose facade the model does not follow.
SessionInit(kind, registered) ==
    /\ SessionState(kind, registered)
    /\ client = NoClient
    /\ wire = <<>>
    /\ sessions = {}
    /\ sockets = <<>>

\* The session over the default storage.
Init == SessionInit(AtCall, Registry)

\* What the provider may answer to a run in Spec: any turn whose tool calls
\* fit in MaxToolCalls.
ProviderTurns ==
    {events \in TextTurns \cup ToolTurns(nextCallId) \cup ErrorTurns(nextCallId) :
        nextCallId - 1 + CountCalls(events) <= MaxToolCalls}

\* The steps of the loops and of the client's replies to them.
LoopNext ==
    \/ \E i \in Loops : AfterSaveUser(i)
    \/ \E i \in Loops : ProviderRejects(i)
    \/ \E i \in Loops : AfterSaveAssistant(i)
    \/ \E i \in Loops : HandlerReturns(i)
    \/ \E i \in Loops : HandlerThrows(i)
    \/ \E i \in Loops : \E payload \in ToolResultPayloads : ToolResult(i, payload)
    \/ \E i \in Loops : \E payload \in ToolErrorPayloads : ToolError(i, payload)
    \/ \E i \in Loops : Timeout(i)
    \/ \E i \in Loops : AfterSaveTools(i)

\* The payloads of the client that nothing takes.
IgnoredNext ==
    \/ InvalidUserMessage
    \/ \E payload \in ContextPayloads : InvalidContextUpdate(payload)
    \/ DroppedReply("tool_result")
    \/ DroppedReply("tool_error")

\* The other payloads of the client.
ClientNext ==
    \/ \E payload \in ContextPayloads : ContextUpdate(payload)
    \/ IgnoredNext

\* Spec: a session that receives one user_message, with any provider, any
\* client and any change of context.
Next ==
    \/ \E content \in UserContents : Started = 0 /\ UserMessage(content)
    \/ \E i \in Loops : \E events \in ProviderTurns : ProviderReturns(i, events)
    \/ LoopNext
    \/ ClientNext

Spec == Init /\ [][Next]_vars

\* SpecCap: a session that receives one user_message and whose provider
\* answers every run with one call of searchWeather, whose handler resolves.
NextCap ==
    \/ \E content \in UserContents : Started = 0 /\ UserMessage(content)
    \/ \E i \in Loops : ProviderReturns(i, CallsFrom(NominalToolList, nextCallId))
    \/ \E i \in Loops : AfterSaveUser(i)
    \/ \E i \in Loops : AfterSaveAssistant(i)
    \/ \E i \in Loops : HandlerReturns(i)
    \/ \E i \in Loops : AfterSaveTools(i)
    \/ ClientNext

SpecCap == Init /\ [][NextCap]_vars

\* SpecFair: Spec with a provider that may also go on calling searchWeather
\* turn after turn, where every call of provider.run, of storage.set and of
\* a server handler comes back and every timer that stays set fires; nothing
\* is asked of the client, whose payloads that nothing takes are left out and
\* whose only change of context is the move to the settings page.
NextFair ==
    \/ \E content \in UserContents : Started = 0 /\ UserMessage(content)
    \/ \E i \in Loops : \E events \in ProviderTurns : ProviderReturns(i, events)
    \/ \E i \in Loops : ProviderReturns(i, CallsFrom(NominalToolList, nextCallId))
    \/ LoopNext
    \/ ContextUpdate(SettingsContext)

Fairness ==
    \A i \in Loops :
        /\ WF_vars(AfterSaveUser(i))
        /\ WF_vars(ProviderRejects(i) \/ \E events \in ProviderTurns : ProviderReturns(i, events))
        /\ WF_vars(AfterSaveAssistant(i))
        /\ WF_vars(HandlerReturns(i) \/ HandlerThrows(i))
        /\ WF_vars(Timeout(i))
        /\ WF_vars(AfterSaveTools(i))

SpecFair == Init /\ [][NextFair]_vars /\ Fairness

\* What the provider may answer to a run in SpecTimeout.
TimeoutTurns ==
    {events \in { <<TextEvent("Done.", NoActions)>>,
                  CallsFrom(<<"listTodos">>, nextCallId),
                  CallsFrom(<<"toggleDarkMode">>, nextCallId) } :
        nextCallId - 1 + CountCalls(events) <= MaxToolCalls}

\* SpecTimeout: a session that receives one user_message and whose provider
\* calls the client tools, one a turn: the one with a timeout of its own and
\* the one without.
NextTimeout ==
    \/ \E content \in UserContents : Started = 0 /\ UserMessage(content)
    \/ \E i \in Loops : \E events \in TimeoutTurns : ProviderReturns(i, events)
    \/ \E i \in Loops : AfterSaveUser(i)
    \/ \E i \in Loops : AfterSaveAssistant(i)
    \/ \E i \in Loops : \E payload \in ToolResultPayloads : ToolResult(i, payload)
    \/ \E i \in Loops : Timeout(i)
    \/ \E i \in Loops : AfterSaveTools(i)
    \/ ClientNext

SpecTimeout == Init /\ [][NextTimeout]_vars

\* What the provider may answer to a run in SpecConcurrent.
ConcurrentTurns ==
    {events \in { <<TextEvent("It is sunny.", NoActions)>>,
                  CallsFrom(NominalToolList, nextCallId) } :
        nextCallId - 1 + CountCalls(events) <= MaxToolCalls}

\* SpecConcurrent: a session that receives up to MaxUserMessages
\* user_messages, at any moment, and whose server tools resolve.
NextConcurrent ==
    \/ \E content \in UserContents : UserMessage(content)
    \/ \E i \in Loops : \E events \in ConcurrentTurns : ProviderReturns(i, events)
    \/ \E i \in Loops : AfterSaveUser(i)
    \/ \E i \in Loops : AfterSaveAssistant(i)
    \/ \E i \in Loops : HandlerReturns(i)
    \/ \E i \in Loops : AfterSaveTools(i)

SpecConcurrent == Init /\ [][NextConcurrent]_vars

\* What the provider may answer to a run in SpecDisconnect.
DisconnectTurns ==
    {events \in { <<TextEvent("Done.", NoActions)>>,
                  CallsFrom(<<"searchWeather", "toggleDarkMode">>, nextCallId),
                  CallsFrom(<<"toggleDarkMode">>, nextCallId) } :
        nextCallId - 1 + CountCalls(events) <= MaxToolCalls}

\* The socket is connected: the payloads of the client arrive.
Up == connection.state = "connected"

\* The session of the socket is the one the variables describe.
Live == connection.state # "reconnected"

\* SpecDisconnect: a session on the settings page that receives one
\* user_message and whose socket disconnects at any moment, after which the
\* server goes on and a connection with the same sessionId may come.
NextDisconnect ==
    \/ \E content \in UserContents : Up /\ Started = 0 /\ UserMessage(content)
    \/ Up /\ ContextUpdate(SettingsContext)
    \/ \E i \in Loops : \E payload \in ToolResultPayloads : Up /\ ToolResult(i, payload)
    \/ Disconnect
    \/ \E i \in Loops : \E events \in DisconnectTurns : Live /\ ProviderReturns(i, events)
    \/ \E i \in Loops : Live /\ AfterSaveUser(i)
    \/ \E i \in Loops : Live /\ AfterSaveAssistant(i)
    \/ \E i \in Loops : Live /\ HandlerReturns(i)
    \/ \E i \in Loops : Live /\ Timeout(i)
    \/ \E i \in Loops : Live /\ AfterSaveTools(i)
    \/ Reconnect

SpecDisconnect == Init /\ [][NextDisconnect]_vars

\* What the provider may answer to a run in SpecOverlap.
OverlapTurns ==
    {events \in { <<TextEvent("It is sunny.", NoActions)>>,
                  CallsFrom(<<"searchWeather", "searchWeather">>, nextCallId) } :
        nextCallId - 1 + CountCalls(events) <= MaxToolCalls}

\* SpecOverlap: a session that receives up to MaxUserMessages user_messages,
\* at any moment, and whose provider calls searchWeather twice in a turn.
NextOverlap ==
    \/ \E content \in UserContents : UserMessage(content)
    \/ \E i \in Loops : \E events \in OverlapTurns : ProviderReturns(i, events)
    \/ \E i \in Loops : AfterSaveUser(i)
    \/ \E i \in Loops : AfterSaveAssistant(i)
    \/ \E i \in Loops : HandlerReturns(i)
    \/ \E i \in Loops : AfterSaveTools(i)

SpecOverlap == Init /\ [][NextOverlap]_vars

\* What the provider may answer to a run in SpecStorage.
StorageTurns ==
    {events \in { <<TextEvent("It is sunny.", NoActions)>>,
                  CallsFrom(NominalToolList, nextCallId) } :
        nextCallId - 1 + CountCalls(events) <= MaxToolCalls}

\* No loop is under way: each has not begun, has returned or was left by a
\* rejection.
Quiet == \A i \in Loops : loop[i].pc \in {"idle", "done", "aborted"}

\* SpecStorage: a session over a storage that stores at completion, whose
\* set calls complete in any order and may reject; it receives up to
\* MaxUserMessages user_messages, one after the other's loop, and the client
\* moves to the settings page at some moment.
StorageInit == SessionInit(AtCompletion, Registry)

NextStorage ==
    \/ \E content \in UserContents : Quiet /\ UserMessage(content)
    \/ currentContext # SettingsContext /\ ContextUpdate(SettingsContext)
    \/ \E i \in Loops : \E events \in StorageTurns : ProviderReturns(i, events)
    \/ \E i \in Loops : AfterSaveUser(i)
    \/ \E i \in Loops : AfterSaveAssistant(i)
    \/ \E i \in Loops : HandlerReturns(i)
    \/ \E i \in Loops : AfterSaveTools(i)
    \/ \E w \in writes : WriteCompletes(w)
    \/ \E w \in writes : WriteFails(w)

SpecStorage == StorageInit /\ [][NextStorage]_vars

\* The registrations on the registries a caller hands to the AgentServer
\* constructor: none (as for the default registry), a server tool, and a
\* client tool of the settings page under the name get_current_context
\* followed by a server tool.
SuppliedRegistries ==
    { <<>>,
      << Tool("searchWeather", "server", Absent, "none") >>,
      << Tool("get_current_context", "client", "settings", "none"),
         Tool("searchWeather", "server", Absent, "none") >> }

\* new AgentServer(io, {registry}): the constructor registers its tool on
\* the registry; then a connection's session as in Init.
FacadeInit ==
    \E supplied \in SuppliedRegistries : SessionInit(AtCall, supplied \o <<FacadeTool>>)

\* What the provider may answer to a run in SpecFacade.
FacadeTurns ==
    {events \in { <<TextEvent("Done.", NoActions)>>,
                  CallsFrom(<<"get_current_context">>, nextCallId),
                  CallsFrom(NominalToolList, nextCallId),
                  CallsFrom(<<"searchWeather", "get_current_context">>, nextCallId) } :
        nextCallId - 1 + CountCalls(events) <= MaxToolCalls}

\* SpecFacade: a session of a server constructed on any of the supplied
\* registries; it receives one user_message, the provider calls
\* get_current_context, and the client changes page at any moment.
NextFacade ==
    \/ \E content \in UserContents : Started = 0 /\ UserMessage(content)
    \/ \E payload \in Contexts : ContextUpdate(payload)
    \/ \E i \in Loops : \E events \in FacadeTurns : ProviderReturns(i, events)
    \/ \E i \in Loops : AfterSaveUser(i)
    \/ \E i \in Loops : AfterSaveAssistant(i)
    \/ \E i \in Loops : HandlerReturns(i)
    \/ \E i \in Loops : AfterSaveTools(i)

SpecFacade == FacadeInit /\ [][NextFacade]_vars

\* SpecRegistry: a new ToolRegistry on which definitions are registered, by
\* register, registerAll and use, up to MaxRegistered of them.
RegistryInit == SessionInit(AtCall, <<>>)

NextRegistry ==
    \/ \E tool \in Definitions : Register(tool)
    \/ \E list \in ToolLists : RegisterAll(list)
    \/ \E router \in ToolLists : Use(router)

SpecRegistry == RegistryInit /\ [][NextRegistry]_vars

\* SpecClient: an AgentClient whose executors are registered, replaced and
\* unregistered while tool_invocation frames arrive, up to MaxToolCalls of
\* them; an executor throws, fulfils, rejects or stays pending, and the timer
\* of an activation fires at any moment after it was set.
ClientToolIds == {"addTodo"}
ExecutorFunctions == {"f", "g"}
ThrownValues == {VError("Element not found")}
ExecutorValues == {VStr("added")}

ClientInit ==
    /\ SessionState(AtCall, Registry)
    /\ client = NewClient(<<>>)
    /\ wire = <<>>
    /\ sessions = {}
    /\ sockets = <<>>

NextClient ==
    \/ ClientConnect
    \/ \E toolId \in ClientToolIds, func \in ExecutorFunctions : RegisterExecutor(toolId, func)
    \/ \E toolId \in ClientToolIds : UnregisterExecutor(toolId)
    \/ \E toolId \in ClientToolIds, thrown \in ThrownValues \cup {Returns} :
          /\ client.connected
          /\ Len(client.invocations) < MaxToolCalls
          /\ HandleInvocation(toolId, Len(client.invocations) + 1, thrown)
    \/ client.connected /\ InvalidInvocation
    \/ \E k \in 1..MaxToolCalls, value \in ExecutorValues : ExecutorResolves(k, value)
    \/ \E k \in 1..MaxToolCalls, error \in ThrownValues : ExecutorRejects(k, error)
    \/ \E k \in 1..MaxToolCalls : ClientTimeout(k)

SpecClient == ClientInit /\ [][NextClient]_vars

\* SpecSync: a client and its session.  The client's components set and
\* remove their scopes, connected or not; the connection is lost, at each end
\* in its own time, and the client connects anew with the same sessionId;
\* the server handles the client's context_update frames in their order.
SyncScopes == {"__initial__", "TodoList"}
SyncContexts ==
    {ClientCtx("settings", Absent, NoCapabilities, NoMetadata),
     ClientCtx("todos", "list", NoCapabilities, NoMetadata)}

SyncInit ==
    /\ SessionState(AtCall, Registry)
    /\ \E config \in {<<>>} \cup {<<context>> : context \in SyncContexts} :
          client = NewClient(config)
    /\ wire = <<>>
    /\ sessions = {}
    /\ sockets = <<>>

NextSync ==
    \/ ClientConnect
    \/ ClientDisconnect
    \/ \E scope \in SyncScopes, context \in SyncContexts :
          Len(wire) < MaxInFlight /\ SetContext(scope, context)
    \/ \E scope \in SyncScopes : Len(wire) < MaxInFlight /\ RemoveContext(scope)
    \/ DeliverContextUpdate
    \/ Disconnect
    \/ FramesLost
    \/ ~client.connected /\ wire = <<>> /\ Reconnect

SpecSync == SyncInit /\ [][NextSync]_vars

\* SpecMerge: the components of a page set, replace and remove their scopes
\* on a client that is not connected, so that the scope map takes every
\* content and every order over MergeScopeKeys and MergeContexts.
MergeScopeKeys == {"TodoList", "SettingsPanel", "Header"}
MergeContexts ==
    {ClientCtx("todos", "list", Capabilities(<<"voice", "camera">>),
               Metadata({<<"theme", "dark">>})),
     ClientCtx("settings", Absent, Capabilities(<<"camera", "gps", "voice">>),
               Metadata({<<"lang", "en">>})),
     ClientCtx(Absent, "general", NoCapabilities, NoMetadata),
     ClientCtx(Absent, Absent, Capabilities(<<>>), NoMetadata),
     EmptyClientContext}

NextMerge ==
    \/ \E scope \in MergeScopeKeys, context \in MergeContexts : SetContext(scope, context)
    \/ \E scope \in MergeScopeKeys : RemoveContext(scope)

SpecMerge == ClientInit /\ [][NextMerge]_vars

\* SpecSessions: an AgentServer that accepts up to MaxSockets connections,
\* over the default storage or over one that answers later; each socket
\* disconnects at any moment after its connection.
SessionsInit ==
    /\ \E kind \in {AtCall, AtCompletion} : SessionState(kind, Registry)
    /\ client = NoClient
    /\ wire = <<>>
    /\ sessions = {}
    /\ sockets = <<>>

NextSessions ==
    \/ Connection
    \/ \E id \in 1..MaxSockets : InitializeReturns(id)
    \/ \E id \in 1..MaxSockets : SocketDisconnect(id)

SpecSessions == SessionsInit /\ [][NextSessions]_vars

\* What the provider may answer to a run in SpecWaiters: calls of the client
\* tool while the bound allows, the final text after that.
WaiterTurns ==
    IF nextCallId - 1 < MaxToolCalls
    THEN {events \in { CallsFrom(<<"toggleDarkMode">>, nextCallId),
                       CallsFrom(<<"toggleDarkMode", "toggleDarkMode">>, nextCallId) } :
             nextCallId - 1 + CountCalls(events) <= MaxToolCalls}
    ELSE { <<TextEvent("Done.", NoActions)>> }

\* The replies of the client in SpecWaiters: well-formed, with the value the
\* schema of toggleDarkMode accepts.
WaiterResults ==
    {payload \in ToolResultPayloads :
        /\ ReplySchemaOk(payload)
        /\ ValidateResult("toggleDarkMode", payload.result).success}
WaiterErrors == {payload \in ToolErrorPayloads : ReplySchemaOk(payload)}

\* No loop is at an await of saveState.  Over InMemorySessionStorage the
\* promise of saveState is settled when it is returned, and the loop resumes
\* in a microtask, before the next event of the socket, of the provider or of
\* a timer is handled.
Resumed == \A i \in Loops : loop[i].pc \notin {"saveUser", "saveAssistant", "saveTools"}

\* SpecWaiters: a session on the settings page that receives up to
\* MaxUserMessages user_messages, each while at most one loop is under way,
\* and whose provider calls the client tool of the page, once or twice in a
\* turn; the client replies with a tool_result or a tool_error or stays
\* silent, and the timer of a waiter fires at any moment.
NextWaiters ==
    \/ \E content \in UserContents :
          /\ Resumed
          /\ currentContext = SettingsContext
          /\ Cardinality({i \in Loops : Active(i)}) <= 1
          /\ UserMessage(content)
    \/ currentContext # SettingsContext /\ ContextUpdate(SettingsContext)
    \/ \E i \in Loops : \E events \in WaiterTurns : Resumed /\ ProviderReturns(i, events)
    \/ \E i \in Loops : AfterSaveUser(i)
    \/ \E i \in Loops : AfterSaveAssistant(i)
    \/ \E i \in Loops : \E payload \in WaiterResults : Resumed /\ ToolResult(i, payload)
    \/ \E i \in Loops : \E payload \in WaiterErrors : Resumed /\ ToolError(i, payload)
    \/ \E i \in Loops : Resumed /\ Timeout(i)
    \/ \E i \in Loops : AfterSaveTools(i)

SpecWaiters == Init /\ [][NextWaiters]_vars

\* What the storage holds for the sessionId of a client that was connected
\* before: the todos page, and a history of one exchange.
EarlierData ==
    Snapshot(TodosContext,
             << SystemEntry(DefaultSystemPrompt), UserEntry("hi"),
                AssistantEntry("Hello.", <<>>) >>)

\* The steps of a session whose storage answers later, from the await of
\* storage.get on: the client's context_update and user_message frames are
\* handled whenever they arrive, initialize() and the loops resume when the
\* storage has answered, and the provider answers with a text.
NextInitialize ==
    \/ GetResolves
    \/ SeedSaved
    \/ \E content \in UserContents : UserMessage(content)
    \/ currentContext # SettingsContext /\ ContextUpdate(SettingsContext)
    \/ \E i \in Loops : AfterSaveUser(i)
    \/ \E i \in Loops : ProviderReturns(i, <<TextEvent("Done.", NoActions)>>)
    \/ \E i \in Loops : AfterSaveAssistant(i)
    \/ \E w \in writes : WriteCompletes(w)

\* SpecSeed: the session of a sessionId the storage holds nothing for.
SeedInit == Constructed(Null)

SpecSeed == SeedInit /\ [][NextInitialize]_vars

\* SpecRestore: the session of a sessionId the storage holds data for;
\* initialize() has nothing to seed.
RestoreInit == Constructed(EarlierData)

NextRestore ==
    \/ GetResolves
    \/ \E content \in UserContents : UserMessage(content)
    \/ currentContext # SettingsContext /\ ContextUpdate(SettingsContext)
    \/ \E i \in Loops : AfterSaveUser(i)
    \/ \E i \in Loops : ProviderReturns(i, <<TextEvent("Done.", NoActions)>>)
    \/ \E i \in Loops : AfterSaveAssistant(i)
    \/ \E w \in writes : WriteCompletes(w)

SpecRestore == RestoreInit /\ [][NextRestore]_vars

\* The tool_result payloads of SpecReply: the toolId is the name of the tool
\* with a resultSchema, of the tool without one, or of no registered tool,
\* whatever tool was called.
NamedResultPayloads ==
    [toolId : {"toggleDarkMode", "listTodos", "deleteAccount"},
     callId : 1..(nextCallId - 1), result : ClientResults]

\* SpecReply: a session that receives one user_message and whose provider
\* calls the two client tools, one a turn, on their pages; the client answers
\* each call with a tool_result under any toolId.
NextReply ==
    \/ \E content \in UserContents : Started = 0 /\ UserMessage(content)
    \/ \E payload \in Contexts : currentContext # payload /\ ContextUpdate(payload)
    \/ \E i \in Loops : \E events \in TimeoutTurns : ProviderReturns(i, events)
    \/ \E i \in Loops : AfterSaveUser(i)
    \/ \E i \in Loops : AfterSaveAssistant(i)
    \/ \E i \in Loops : \E payload \in NamedResultPayloads : ToolResult(i, payload)
    \/ \E i \in Loops : AfterSaveTools(i)

SpecReply == Init /\ [][NextReply]_vars

\* SpecDuplicates: SpecWaiters with a client that also sends replies no
\* installed listener takes: a reply for a call that was settled by an
\* earlier reply or by its timer, or one that fails its schema.
NextDuplicates ==
    \/ NextWaiters
    \/ Resumed /\ DroppedReply("tool_result")
    \/ Resumed /\ DroppedReply("tool_error")

SpecDuplicates == Init /\ [][NextDuplicates]_vars

\* ------------------------------------------------------------------ properties

\* The tool entries of call c in a history.
ToolEntriesOf(history, c) ==
    {m \in 1..Len(history) : history[m].role = "tool" /\ history[m].tool_call_id = c}

\* Call c got the anti-ghost entry.
Ghosted(history, c) ==
    \E m \in ToolEntriesOf(history, c) : history[m].content = VStr(GhostError)

\* A server handler was called for call c.
Handled(calls, c) == \E j \in 1..Len(calls) : calls[j].callId = c

\* A tool_invocation frame was sent for call c.
Invoked(frames, c) ==
    \E j \in 1..Len(frames) : frames[j].event = "tool_invocation" /\ frames[j].callId = c

\* Call c was reached by the dispatch.
Dispatched(c) == \E j \in 1..Len(dispatched) : dispatched[j].callId = c

\* The name of the tool of call c, as the assistant entries record it.
NameInHistory(c) ==
    LET m == CHOOSE m \in 1..Len(messages) :
                 \E t \in 1..Len(messages[m].tool_calls) : messages[m].tool_calls[t].id = c
        t == CHOOSE t \in 1..Len(messages[m].tool_calls) : messages[m].tool_calls[t].id = c
    IN  messages[m].tool_calls[t].function.name

\* C1: a tool call whose tool is not available under the context current at
\* its dispatch reaches no handler and no tool_invocation frame, gets exactly
\* one tool entry, the anti-ghost text, and the dispatch goes on with the next
\* call of the turn (after the last call, to saving the turn).
C1_AntiGhost ==
    \A j \in 1..Len(dispatched) :
        ~dispatched[j].available =>
            LET c == dispatched[j].callId
            IN  /\ ~Handled(handlerCalls, c)
                /\ ~Invoked(emitted, c)
                /\ Cardinality(ToolEntriesOf(messages, c)) = 1
                /\ Ghosted(messages, c)
                /\ \A i \in Loops : \A k \in 1..Len(loop[i].toolCalls) :
                       loop[i].toolCalls[k].callId = c =>
                           IF k < Len(loop[i].toolCalls)
                           THEN Dispatched(loop[i].toolCalls[k + 1].callId)
                           ELSE loop[i].pc = "saveTools"

\* A registered tool was refused by its context filter, and the call after
\* it in the turn reached its handler.
C1_Witness ==
    \E j \in 1..Len(dispatched) :
        /\ ~dispatched[j].available
        /\ NameInHistory(dispatched[j].callId) = "toggleDarkMode"
        /\ j < Len(dispatched)
        /\ Handled(handlerCalls, dispatched[j + 1].callId)

\* The tool call of loops' current turns with callId c.
CallOf(c) ==
    LET i == CHOOSE i \in Loops :
                 \E k \in 1..Len(loop[i].toolCalls) : loop[i].toolCalls[k].callId = c
        k == CHOOSE k \in 1..Len(loop[i].toolCalls) : loop[i].toolCalls[k].callId = c
    IN  [i |-> i, tc |-> loop[i].toolCalls[k]]

\* What a step does with the calls it dispatches, judged by the context
\* current in that step.
DispatchUsesCurrentContext ==
    \A j \in (Len(dispatched) + 1)..Len(dispatched') :
        LET c == dispatched'[j].callId
            tc == CallOf(c).tc
            i == CallOf(c).i
        IN  IF IsToolAvailable(tc.toolName, currentContext')
            THEN /\ ~Ghosted(messages', c)
                 /\ IF GetToolByName(tc.toolName).executionSide = "server"
                    THEN /\ Handled(handlerCalls', c)
                         /\ loop'[i].pc = "handler"
                         /\ loop'[i].handed = currentContext'
                    ELSE Invoked(emitted', c)
            ELSE /\ Ghosted(messages', c)
                 /\ ~Handled(handlerCalls', c)
                 /\ ~Invoked(emitted', c)

\* C2: a context_update replaces currentContext whatever the loops are
\* suspended at, without touching them, and every tool call dispatched
\* afterwards is checked against, and its server handler handed, the context
\* current at the dispatch, not the one the provider was called under.
C2_ContextAtDispatch ==
    [][ /\ currentContext' # currentContext =>
            /\ currentContext' \in Contexts
            /\ UNCHANGED <<loop, messages, listeners, timers, emitted,
                   client, wire, sessions, sockets>>
            /\ \A ctx \in Contexts : ENABLED ContextUpdate(ctx)
        /\ DispatchUsesCurrentContext ]_vars

\* toggleDarkMode was invoked although the list computed when the provider
\* was called did not hold it: the context changed while the loop was
\* suspended, and the dispatch used the new one.
C2_Witness ==
    \E i \in Loops :
        /\ loop[i].pc = "waitClient"
        /\ loop[i].toolCalls[loop[i].k].toolName = "toggleDarkMode"
        /\ \A j \in 1..Len(loop[i].availableTools) :
               loop[i].availableTools[j] # "toggleDarkMode"

\* Loop i is inside runAgentLoop.
Running(i) == loop[i].pc \notin {"idle", "saveUser", "done"}

\* C3: user_message handling is serialized: at most one agent loop runs at
\* any time, a second user_message waits for the first loop to exit.
C3_Serialized == Cardinality({i \in Loops : Running(i)}) <= 1

\* The entries of history whose mark in marks is tag, in order.
RECURSIVE SelectBy(_, _, _)
SelectBy(history, marks, tag) ==
    IF history = <<>> THEN <<>>
    ELSE (IF marks[1] = tag THEN <<history[1]>> ELSE <<>>)
         \o SelectBy(Tail(history), Tail(marks), tag)

\* The entries loop i appended in its turn t.
TurnEntries(i, t) == SelectBy(messages, origin, <<i, t>>)

\* The callIds of the tool_call events of a turn, in the provider's order.
RECURSIVE CallIdsOf(_)
CallIdsOf(events) ==
    IF events = <<>> THEN <<>>
    ELSE (IF events[1].type = "tool_call" THEN <<events[1].callId>> ELSE <<>>)
         \o CallIdsOf(Tail(events))

\* Turn t of loop i is over.
TurnOver(i, t) == t < loop[i].turns \/ loop[i].pc \in {"saveTools", "done"}

\* C4: the entries a loop appends in a turn are the assistant entry, whose
\* tool_calls list the provider's calls in its order, followed by one tool
\* entry per call in that order, the k-th with the k-th call's callId; while
\* the k-th call is awaited only the entries before it are there, and once
\* the turn is over there are exactly n of them, whatever each call's outcome.
C4_TurnOrder ==
    \A i \in Loops : \A t \in 1..loop[i].turns :
        LET seg == TurnEntries(i, t)
            ids == [k \in 1..Len(seg[1].tool_calls) |-> seg[1].tool_calls[k].id]
            current == t = loop[i].turns /\ loop[i].pc # "done"
        IN  seg # <<>> =>
              /\ seg[1].role = "assistant"
              /\ Len(seg) <= Len(ids) + 1
              /\ \A k \in 2..Len(seg) :
                     seg[k].role = "tool" /\ seg[k].tool_call_id = ids[k - 1]
              /\ TurnOver(i, t) => Len(seg) = Len(ids) + 1
              /\ current => ids = CallIdsOf(loop[i].events)
              /\ current /\ loop[i].pc \in {"handler", "waitClient"} => Len(seg) = loop[i].k

\* A turn of two calls is over, and the two calls ended differently.
C4_Witness ==
    \E i \in Loops : \E t \in 1..loop[i].turns :
        /\ TurnOver(i, t)
        /\ Len(TurnEntries(i, t)) = 3
        /\ TurnEntries(i, t)[2].content # TurnEntries(i, t)[3].content

\* C5: the waiter of a client call is settled only by a tool_result or a
\* tool_error that passes its schema and carries the call's callId, or by
\* its timer; a reply that no listener takes leaves the waiter it found
\* pending as it was, installed and without a tool entry, until such a
\* settlement; the tool entry of an invoked call comes with its settlement.
C5_WaiterSettledByMatchingReply ==
    /\ \A j \in 1..Len(settled) :
          \/ settled[j].by = "timeout"
          \/ /\ settled[j].by \in {"tool_result", "tool_error"}
             /\ ReplySchemaOk(settled[j].reply)
             /\ settled[j].reply.callId = settled[j].callId
    /\ \A j \in 1..Len(emitted) :
          emitted[j].event = "tool_invocation" =>
              LET c == emitted[j].callId
                  isSettled == \E n \in 1..Len(settled) : settled[n].callId = c
                  installed == \A e \in {"tool_result", "tool_error"} :
                                  [event |-> e, callId |-> c] \in listeners
              IN  /\ isSettled <=> ~installed
                  /\ isSettled <=> ToolEntriesOf(messages, c) # {}
                  /\ ~isSettled => \E i \in Loops : Waiting(i, c)

\* A reply was dropped while the waiter of a call was pending, and the
\* waiter was later settled by a tool_result.
C5_Witness ==
    \E j \in 1..Len(settled) :
        settled[j].by = "tool_result" /\ settled[j].callId \in ignoredPending

\* C6: for every tool_result that settled a client call, the call's one tool
\* entry holds the JSON of what validateResult returned when it accepts the
\* value, and when it rejects the JSON of an object whose only key is error
\* and whose value starts with "Result validation failed"; a rejected value
\* is the content of no entry.
C6_TrustBoundary ==
    \A j \in 1..Len(settled) :
        settled[j].by = "tool_result" =>
            LET c == settled[j].callId
                value == settled[j].reply.result
                validated == ValidateResult(NameInHistory(c), value)
                entries == ToolEntriesOf(messages, c)
            IN  /\ Cardinality(entries) = 1
                /\ \A m \in entries :
                       messages[m].content =
                           IF validated.success
                           THEN VStr(JSONStringify(validated.data))
                           ELSE VStr("{\"error\":"
                                     \o Quote("Result validation failed: " \o validated.error)
                                     \o "}")
                /\ ~validated.success =>
                       \A m \in 1..Len(messages) :
                           messages[m].content # VStr(JSONStringify(value))

\* A tool_result whose value validateResult rejects settled a call.
C6_Witness ==
    \E j \in 1..Len(settled) :
        /\ settled[j].by = "tool_result"
        /\ ~ValidateResult(NameInHistory(settled[j].callId), settled[j].reply.result).success

\* The entries loop i appended.
EntriesBy(i, role) ==
    {m \in 1..Len(messages) : origin[m][1] = i /\ messages[m].role = role}

\* The frames loop i sent, in order.
FramesBy(i) == SelectSeq(emitted, LAMBDA f : f.by = i)

\* C7: provider.run is called at most 5 times for a user_message; with a
\* provider that answers every run with one call of a tool that succeeds,
\* the loop returns after exactly 5 runs, with 5 assistant entries and 5
\* tool entries appended and no frame with done true sent.
C7_TurnCap ==
    \A i \in Loops :
        /\ loop[i].turns <= 5
        /\ loop[i].pc = "done" =>
              /\ loop[i].turns = 5
              /\ Cardinality(EntriesBy(i, "assistant")) = 5
              /\ Cardinality(EntriesBy(i, "tool")) = 5
              /\ \A j \in 1..Len(emitted) : emitted[j].by = i => ~emitted[j].done

\* The loop returned at the cap.
C7_Witness ==
    \E i \in Loops : loop[i].pc = "done" /\ loop[i].turns = 5

\* The events of a turn are text events only.
TextOnly(events) == \A j \in 1..Len(events) : events[j].type = "text"

\* The events of a turn hold an error event.
HasError(events) == \E j \in 1..Len(events) : events[j].type = "error"

\* C8: a loop that started returns, whatever the client does: after a run
\* of the provider that was rejected or held an error event, after a turn
\* of text events only, or after its fifth turn.
C8_Terminates ==
    /\ \A i \in Loops : (loop[i].pc # "idle") ~> (loop[i].pc = "done")
    /\ [](\A i \in Loops :
             loop[i].pc = "done" =>
                 \/ loop[i].rejected
                 \/ HasError(loop[i].events)
                 \/ TextOnly(loop[i].events)
                 \/ loop[i].turns = 5)

\* A loop returned although no reply ever settled a waiter: a timer did.
C8_Witness ==
    \E i \in Loops :
        /\ loop[i].pc = "done"
        /\ \E j \in 1..Len(settled) : settled[j].by = "timeout"
        /\ \A j \in 1..Len(settled) : settled[j].by = "timeout"

\* The suggestedActions of the last text event that carries some.
RECURSIVE LastActions(_)
LastActions(events) ==
    IF events = <<>> THEN NoActions
    ELSE LET last == events[Len(events)]
         IN  IF last.type = "text" /\ last.suggestedActions.present
             THEN last.suggestedActions
             ELSE LastActions(SubSeq(events, 1, Len(events) - 1))

\* The text of the text events, joined.
RECURSIVE JoinText(_)
JoinText(events) ==
    IF events = <<>> THEN ""
    ELSE (IF events[1].type = "text" THEN events[1].content ELSE "") \o JoinText(Tail(events))

\* C9: after a run of the provider that returned text events only, the
\* assistant entry is appended first, with no terminal frame sent yet; then
\* the loop returns having sent exactly one frame with done true, its last,
\* with content "" and the suggestedActions of the last text event that
\* carried some (absent when none did); the assistant entry of that turn is
\* the last entry of the loop and the provider has run once per assistant
\* entry.
C9_TextOnlyTurn ==
    \A i \in Loops :
        LET lp == loop[i]
            seg == TurnEntries(i, lp.turns)
            fr == FramesBy(i)
        IN  /\ (lp.pc = "saveAssistant" /\ lp.toolCalls = <<>>) =>
                  /\ Len(seg) = 1 /\ seg[1].role = "assistant"
                  /\ \A j \in 1..Len(fr) : ~fr[j].done
            /\ (lp.pc = "done" /\ ~lp.rejected /\ TextOnly(lp.events)) =>
                  /\ Len(seg) = 1
                  /\ seg[1].role = "assistant" /\ seg[1].tool_calls = <<>>
                  /\ seg[1].content = IF JoinText(lp.events) = "" THEN VNull
                                       ELSE VStr(JoinText(lp.events))
                  /\ {j \in 1..Len(fr) : fr[j].done} = {Len(fr)}
                  /\ fr[Len(fr)].event = "agent_response"
                  /\ fr[Len(fr)].content = ""
                  /\ fr[Len(fr)].suggestedActions = LastActions(lp.events)
                  /\ Cardinality(EntriesBy(i, "assistant")) = lp.turns

\* A loop returned after a text-only turn whose last text event carried no
\* suggestedActions while an earlier one did.
C9_Witness ==
    \E i \in Loops :
        /\ loop[i].pc = "done" /\ ~loop[i].rejected /\ TextOnly(loop[i].events)
        /\ loop[i].events # <<>>
        /\ ~loop[i].events[Len(loop[i].events)].suggestedActions.present
        /\ LastActions(loop[i].events).present

\* The message of the first error event of a turn.
ErrorMessage(events) ==
    events[CHOOSE j \in 1..Len(events) :
               events[j].type = "error" /\ \A h \in 1..(j - 1) : events[h].type # "error"].error.lit

\* C10: after a run of the provider that held an error event with message
\* m, the loop has returned, and its last frame has done true and the
\* content "Error: " followed by m.
C10_ErrorFrame ==
    \A i \in Loops :
        (~loop[i].rejected /\ HasError(loop[i].events)) =>
            LET fr == FramesBy(i)
            IN  /\ loop[i].pc = "done"
                /\ fr[Len(fr)].done
                /\ fr[Len(fr)].content = "Error: " \o ErrorMessage(loop[i].events)

\* The dispatch of loop i went on after its k-th call: every call up to the
\* one it awaits now is dispatched, or every call of the turn is and the turn
\* is being saved.
WentOn(i, k) ==
    /\ loop'[i].toolCalls = loop[i].toolCalls
    /\ \/ /\ loop'[i].pc \in {"handler", "waitClient"}
          /\ loop'[i].k > k
          /\ \A j \in (k + 1)..loop'[i].k :
                \E d \in 1..Len(dispatched') :
                    dispatched'[d].callId = loop[i].toolCalls[j].callId
       \/ /\ loop'[i].pc = "saveTools"
          /\ \A j \in (k + 1)..Len(loop[i].toolCalls) :
                \E d \in 1..Len(dispatched') :
                    dispatched'[d].callId = loop[i].toolCalls[j].callId

\* The awaited call of loop i failed with message in this step: its entry,
\* "Error: " and the message, is the one entry the step adds for it, and the
\* dispatch goes on.
FailureHandled(i, message) ==
    LET c == loop[i].toolCalls[loop[i].k].callId
    IN  /\ ToolEntriesOf(messages, c) = {}
        /\ ToolEntriesOf(messages', c) = {Len(messages) + 1}
        /\ messages'[Len(messages) + 1].content = VStr("Error: " \o message)
        /\ SubSeq(messages', 1, Len(messages)) = messages
        /\ WentOn(i, loop[i].k)

\* C11: a step in which a server handler throws, a tool_error settles a
\* waiter or a timer fires appends the tool entry of the call, "Error: " and
\* the message, and the dispatch goes on with the remaining calls in order;
\* the step after the turn is saved calls the provider again, when fewer
\* than 5 turns have run, with the history as it is, error entries included.
C11_FailureDoesNotAbort ==
    [][ \A i \in Loops :
          /\ HandlerThrows(i) => FailureHandled(i, "Cannot read properties of null")
          /\ (loop[i].pc = "waitClient" /\ Len(settled') > Len(settled)) =>
                LET how == settled'[Len(settled')]
                IN  /\ how.by = "tool_error" => FailureHandled(i, how.reply.message)
                    /\ how.by = "timeout" =>
                          FailureHandled(i, "Tool Timeout (" \o ToString(how.reply.ms) \o "ms)")
          /\ (loop[i].pc = "saveTools" /\ loop'[i] # loop[i] /\ loop[i].turns < 5) =>
                /\ loop'[i].pc = "provider"
                /\ loop'[i].turns = loop[i].turns + 1
                /\ messages' = messages ]_vars

\* The provider is called again, with a history that holds the error
\* entry of a tool_error.
C11_Witness ==
    \E i \in Loops :
        /\ loop[i].pc = "provider"
        /\ loop[i].turns > 1
        /\ \E m \in 1..Len(messages) :
              /\ messages[m].role = "tool"
              /\ messages[m].content = VStr("Error: Element not found")

\* The timeout of the wait for call c: 50 ms for listTodos, whose definition
\* sets it, and the session's default, 30000 ms, for the other tools.
ExpectedTimeout(c) == IF NameInHistory(c) = "listTodos" THEN 50 ELSE 30000

\* The loop and turn that appended the tool entry of call c.
TurnOf(c) == origin[CHOOSE m \in ToolEntriesOf(messages, c) : TRUE]

\* C12: the timer of a client call is set to the tool's own timeout when its
\* definition has one and to the session's default otherwise; when it fires
\* on a waiter still pending, the call gets the one tool entry "Error: Tool
\* Timeout (<T>ms)" with that T, and the loop does not end in that turn
\* unless it is the fifth: the provider is called again.
C12_ClientToolTimeout ==
    /\ \A t \in timers : t.ms = ExpectedTimeout(t.callId)
    /\ \A j \in 1..Len(settled) :
          settled[j].by = "timeout" =>
              LET c == settled[j].callId
                  i == TurnOf(c)[1]
                  turn == TurnOf(c)[2]
              IN  /\ Invoked(emitted, c)
                  /\ \A n \in 1..(j - 1) : settled[n].callId # c
                  /\ Cardinality(ToolEntriesOf(messages, c)) = 1
                  /\ \A m \in ToolEntriesOf(messages, c) :
                         messages[m].content =
                             VStr("Error: Tool Timeout ("
                                  \o ToString(ExpectedTimeout(c)) \o "ms)")
                  /\ ~(loop[i].pc = "done" /\ loop[i].turns = turn /\ turn < 5)

\* The wait for listTodos ended at its own timeout, and the provider is
\* called again with the entry in the history.
C12_Witness ==
    \E i \in Loops :
        /\ loop[i].pc = "provider"
        /\ \E j \in 1..Len(settled) :
              /\ settled[j].by = "timeout"
              /\ NameInHistory(settled[j].callId) = "listTodos"
        /\ \E m \in 1..Len(messages) :
              messages[m].content = VStr("Error: Tool Timeout (50ms)")

\* C13: when the socket disconnects every pending client-tool waiter is
\* rejected at once, and from then on the session calls provider.run no more,
\* dispatches no tool and emits no frame.
C13_DisconnectEndsWork ==
    connection.state = "disconnected" =>
        /\ listeners = {}
        /\ DoneSoFar.providerRuns = connection.at.providerRuns
        /\ DoneSoFar.dispatched = connection.at.dispatched
        /\ DoneSoFar.emitted = connection.at.emitted

\* C14: a storage.set that fails is never fatal to the session: no loop is
\* left before its normal end, whichever of its saves failed.
C14_StorageFailureNotFatal == \A i \in Loops : loop[i].pc # "aborted"

\* A loop calls provider.run in this step.
CallsProvider(i) == loop[i].pc # "provider" /\ loop'[i].pc = "provider"

\* C15: at every call of provider.run the snapshot of the last storage.set
\* holds the history the provider is given: every entry pushed was persisted
\* before the call.
C15_PersistBeforeProvider ==
    [][\A i \in Loops : CallsProvider(i) => stored'.messages = messages']_vars

\* C16: the storage writes of a session are serialized: no two storage.set
\* calls are in flight together.
C16_WritesSerialized == Cardinality(writes) <= 1

\* C17: a connection that presents the sessionId of a disconnected session
\* starts with the context and the history of the last snapshot persisted
\* for it, and with no second system entry.
C17_RestoreRoundTrip ==
    connection.state = "reconnected" =>
        /\ currentContext = stored.context
        /\ messages = stored.messages
        /\ Len(SelectSeq(messages, LAMBDA m : m.role = "system")) = 1

\* C18: a context_update whose payload the schema accepts makes the parsed
\* payload the current context, whole (no field of the previous context
\* stays), issues one storage write that carries it, and emits a
\* context_sync with that context and the names of the tools
\* getToolsForContext gives for it, in the order of the registry.
C18_ContextUpdate ==
    [][\A payload \in ContextPayloads :
          ContextUpdate(payload) =>
              LET c == ParseContext(payload)
              IN  /\ currentContext' = c
                  /\ stored' = Snapshot(c, messages)
                  /\ lastSync' = [context |-> c, availableTools |-> GetToolsForContext(c)]
                  /\ UNCHANGED <<messages, emitted, loop,
                   client, wire, sessions, sockets>>]_vars

\* The client moved from the todos page, which has a tab, to the settings
\* page, which has none, and was told so.
C18_Witness ==
    /\ currentContext = SettingsContext
    /\ lastSync = [context |-> SettingsContext,
                   availableTools |-> <<"get_current_context", "searchWeather", "toggleDarkMode">>]
    /\ stored.context = SettingsContext
    /\ \E i \in Loops : loop[i].handed = TodosContext

\* C18 as the specification has it: the context and the context_sync hold
\* the payload itself.
C18_PayloadIsContext ==
    [][\A payload \in ContextPayloads :
          ContextUpdate(payload) =>
              /\ currentContext' = payload
              /\ lastSync'.context = payload]_vars

\* C19: a context_update or a user_message whose payload fails its schema
\* has no effect: the context, the history and what storage holds or is
\* being given stay as they are, no context_sync and no agent_response is
\* emitted, and no loop starts or moves (so no provider.run is called).
C19_InvalidPayloadNoEffect ==
    [][(InvalidUserMessage \/ \E payload \in ContextPayloads : InvalidContextUpdate(payload))
          => UNCHANGED <<currentContext, messages, stored, writes, lastSync, emitted,
                         loop, listeners, dispatched,
                   client, wire, sessions, sockets>>]_vars

\* Every payload that could be dropped was, in a session on the settings
\* page whose loop waits for the provider.
C19_Witness ==
    /\ ignored = MaxIgnored
    /\ ignoredPending = {}
    /\ currentContext = SettingsContext
    /\ \E i \in Loops : loop[i].pc = "provider" /\ loop[i].turns = 1

\* The names of a sequence of definitions.
NamesOf(list) == {list[j].name : j \in 1..Len(list)}

\* The places of the first and of the last definition of a name in a
\* sequence that has one.
FirstOf(list, name) == CHOOSE j \in 1..Len(list) :
    list[j].name = name /\ \A k \in 1..(j - 1) : list[k].name # name
LastOf(list, name) == CHOOSE j \in 1..Len(list) :
    list[j].name = name /\ \A k \in (j + 1)..Len(list) : list[k].name # name

\* C20: after any sequence of register, registerAll and use calls the
\* registry holds one definition per name registered, the last one
\* registered under the name, its size is the number of distinct names, and
\* getToolsForContext gives the tools in the order their names were first
\* registered, whatever was registered again.
C20_Registry ==
    LET tools == registry.tools
        calls == registry.calls
    IN  /\ NamesOf(tools) = NamesOf(calls)
        /\ Len(tools) = Cardinality(NamesOf(calls))
        /\ \A j \in 1..Len(tools) : tools[j] = calls[LastOf(calls, tools[j].name)]
        /\ \A context \in Contexts \cup {EmptyContext} :
              LET given == FilterTools(tools, context)
              IN  /\ \A j \in 1..Len(tools) :
                        (tools[j].contextFilter = Absent \/ ContextFilter(tools[j], context))
                            <=> \E k \in 1..Len(given) : given[k] = tools[j].name
                  /\ \A j, k \in 1..Len(given) :
                        j < k => FirstOf(calls, given[j]) < FirstOf(calls, given[k])

\* A name registered first was registered again, with another definition,
\* after a second name, and both tools are given on the settings page.
C20_Witness ==
    /\ Len(registry.calls) = 3
    /\ registry.calls[1].name = registry.calls[3].name
    /\ registry.calls[1] # registry.calls[3]
    /\ registry.calls[2].name # registry.calls[1].name
    /\ Len(FilterTools(registry.tools, SettingsContext)) = 2

\* The names a sequence of names holds.
Range(names) == {names[j] : j \in 1..Len(names)}

\* The names isToolAvailable is asked about: those of the definitions, and
\* one that is never registered.
AskedNames == {d.name : d \in Definitions} \cup {"deleteAccount"}

\* C21: for every context and every registered tool, the tool is among
\* getToolsForContext's iff it has no contextFilter or its filter accepts
\* the context; isToolAvailable is false for a name that is not registered
\* and otherwise true exactly when the tool under the name is among
\* getToolsForContext's.
C21_Availability ==
    \A context \in Contexts \cup {EmptyContext} :
        LET tools == registry.tools
            given == Range(FilterTools(tools, context))
        IN  /\ \A j \in 1..Len(tools) :
                  tools[j].name \in given
                      <=> (tools[j].contextFilter = Absent \/ context.page_id = tools[j].contextFilter)
            /\ \A name \in AskedNames :
                  IsToolAvailableIn(tools, name, context)
                      <=> (name \in NamesOf(tools) /\ name \in given)

\* A registry with a tool of the settings page only, a tool of every page,
\* and a name that was not registered.
C21_Witness ==
    /\ Len(registry.tools) = 2
    /\ Len(FilterTools(registry.tools, SettingsContext)) = 2
    /\ Len(FilterTools(registry.tools, TodosContext)) = 1
    /\ ~IsToolAvailableIn(registry.tools, "toggleDarkMode", TodosContext)
    /\ IsToolAvailableIn(registry.tools, "toggleDarkMode", SettingsContext)
    /\ ~IsToolAvailableIn(registry.tools, "listTodos", SettingsContext)

\* The values validateResult is given.
ResultValues == ClientResults \cup {VStr("Added")}

\* v satisfies the schema.
Satisfies(schema, v) ==
    CASE schema \in {"string", "async:string"} -> v.tag = "string"
      [] schema = "darkMode:boolean" ->
           v.tag = "object" /\ \E j \in 1..Len(v.fields) :
               v.fields[j][1] = "darkMode" /\ v.fields[j][2].tag = "boolean"

\* The reasons zod gives.
ZodMessages == {"expected string", "expected boolean"}

\* validateResult(name, v) on tools answers as C22 says, for the tools whose
\* schema is among schemas.
ValidatesAsClaimed(tools, name, v, schemas) ==
    LET r == ValidateResultIn(tools, name, v)
    IN  IF name \notin NamesOf(tools)
        THEN ~r.success /\ r.error = "Unknown tool: " \o name
        ELSE LET schema == MapGet(tools, name).resultSchema
             IN  CASE schema = "none" -> r.success /\ r.data = v
                   [] schema \in schemas /\ Satisfies(schema, v) ->
                        r.success /\ r.data = SafeParse(schema, v).data
                   [] schema \in schemas /\ ~Satisfies(schema, v) ->
                        /\ ~r.success
                        /\ \E m \in ZodMessages :
                              r.error = "Result validation failed for " \o name \o ": " \o m
                   [] OTHER ->
                        /\ ~r.success
                        /\ r.error = "Result validation error for " \o name \o ": "
                                         \o AsyncParseError

\* C22: validateResult fails with "Unknown tool" for a name that is not
\* registered, succeeds with the value as it is for a tool without
\* resultSchema, and for a tool with one succeeds with the parsed value when
\* the value satisfies the schema and fails with "Result validation failed"
\* when it does not, unless safeParse itself throws: then it fails with
\* "Result validation error".  It returns in every case.
C22_ValidateResult ==
    \A name \in AskedNames : \A v \in ResultValues :
        ValidatesAsClaimed(registry.tools, name, v, {"string", "darkMode:boolean"})

\* The registry holds a tool without schema, a tool whose schema strips a
\* key of one value and rejects the other, and a tool whose schema throws.
C22_Witness ==
    /\ NamesOf(registry.tools) = {"toggleDarkMode", "listTodos", "addTodo"}
    /\ \E v \in ResultValues :
          /\ ValidateResultIn(registry.tools, "toggleDarkMode", v).success
          /\ ValidateResultIn(registry.tools, "toggleDarkMode", v).data # v
    /\ \E v \in ResultValues : ~ValidateResultIn(registry.tools, "toggleDarkMode", v).success
    /\ ValidateResultIn(registry.tools, "listTodos", VStr("Added")).success
    /\ MapGet(registry.tools, "addTodo").resultSchema = "async:string"

\* C22 as the specification has it: every schema either accepts the value
\* or fails with "Result validation failed".
C22_FailedOrParsed ==
    \A name \in AskedNames : \A v \in ResultValues :
        ValidatesAsClaimed(registry.tools, name, v,
                           {"string", "darkMode:boolean", "async:string"})

\* The registry holds the constructor's tool under get_current_context, and
\* every call of it that was dispatched went to the handler: no ghost
\* entry, no tool_invocation.
FacadeToolServes ==
    /\ "get_current_context" \in ToolNames
    /\ GetToolByName("get_current_context").executionSide = "server"
    /\ GetToolByName("get_current_context").contextFilter = Absent
    /\ \A j \in 1..Len(dispatched) :
          LET c == dispatched[j].callId
          IN  NameInHistory(c) = "get_current_context" =>
                  /\ dispatched[j].available
                  /\ Handled(handlerCalls, c)
                  /\ ~Invoked(emitted, c)
                  /\ ~Ghosted(messages, c)

\* Loop i awaits the handler of get_current_context.
AwaitsFacadeTool(lp) ==
    lp.pc = "handler" /\ lp.toolCalls[lp.k].toolName = "get_current_context"

\* C23: the registry of a constructed AgentServer, default or supplied,
\* holds a server-side get_current_context with no contextFilter; a call of
\* it by the provider emits no tool_invocation, its handler is handed the
\* currentContext of the moment of the dispatch, and the tool entry
\* appended for the callId is the JSON encoding of that context.
C23_GetCurrentContext ==
    [][/\ FacadeToolServes
       /\ FacadeToolServes'
       /\ \A i \in Loops :
             /\ (AwaitsFacadeTool(loop'[i]) /\ loop'[i] # loop[i])
                    => loop'[i].handed = currentContext'
             /\ (AwaitsFacadeTool(loop[i]) /\ loop'[i] # loop[i]) =>
                    LET c == loop[i].toolCalls[loop[i].k].callId
                    IN  /\ ToolEntriesOf(messages, c) = {}
                        /\ ToolEntriesOf(messages', c) = {Len(messages) + 1}
                        /\ messages'[Len(messages) + 1].content
                               = VStr(JSONStringify(CtxValue(loop[i].handed)))]_vars

\* On a registry that was supplied with a client tool under the name, the
\* entry of a call holds the settings page although the client is on the
\* todos page by now.
C23_Witness ==
    /\ registry.calls[1].executionSide = "client"
    /\ registry.calls[1].name = "get_current_context"
    /\ currentContext = TodosContext
    /\ \E m \in 1..Len(messages) :
          /\ messages[m].role = "tool"
          /\ NameInHistory(messages[m].tool_call_id) = "get_current_context"
          /\ messages[m].content = VStr("{\"page_id\":\"settings\"}")

\* The replies to call c among the frames: the tool_result and tool_error
\* frames that carry its callId.
RepliesTo(frames, c) ==
    {j \in 1..Len(frames) :
        frames[j].event \in {"tool_result", "tool_error"} /\ frames[j].callId = c}

\* The text of the tool_error for a tool without executor.
NoExecutorMessage(toolId) ==
    VStr("Tool \"" \o toolId \o "\" is not available in the current client version")

\* The replies of the activations so far: none while the race is pending, one
\* once it is not, with the toolId of the invocation.
OneReplyEach(c, frames) ==
    \A k \in 1..Len(c.invocations) :
        LET a == c.invocations[k]
        IN  /\ Cardinality(RepliesTo(frames, a.callId)) = IF a.race = "pending" THEN 0 ELSE 1
            /\ \A j \in RepliesTo(frames, a.callId) : frames[j].toolId = a.toolId

\* C24: every schema-valid tool_invocation is answered by exactly one reply
\* with its toolId and callId: a tool_error at once when the toolId has no
\* executor, a tool_result with the executor's value when the executor
\* fulfils before the timer fires, a tool_error with the error's message when
\* the executor throws or rejects, a tool_error with the timeout message when
\* the timer fires first; what happens after the reply (the executor settling
\* after the timeout, the timer firing after the reply) emits nothing.
C24_OneReply ==
    [][/\ OneReplyEach(client, wire) /\ OneReplyEach(client', wire')
       /\ \A toolId \in ClientToolIds, thrown \in ThrownValues \cup {Returns} :
            HandleInvocation(toolId, Len(client.invocations) + 1, thrown) =>
               LET c == Len(client.invocations) + 1
               IN  IF ExecutorsGet(client.executors, toolId) = Absent
                   THEN wire' = Append(wire, ClientFrame("tool_error", toolId, c,
                                                         NoExecutorMessage(toolId)))
                   ELSE IF thrown # Returns
                   THEN wire' = Append(wire, ClientFrame("tool_error", toolId, c,
                                                         VStr(thrown.lit)))
                   ELSE wire' = wire
       /\ \A k \in 1..Len(client.invocations) :
            LET a == client.invocations[k]
                Reply(event, payload) ==
                    IF a.race = "pending"
                    THEN wire' = Append(wire, ClientFrame(event, a.toolId, a.callId, payload))
                    ELSE wire' = wire
            IN  /\ \A value \in ExecutorValues :
                     ExecutorResolves(k, value) => Reply("tool_result", value)
                /\ \A error \in ThrownValues :
                     ExecutorRejects(k, error) => Reply("tool_error", VStr(error.lit))
                /\ ClientTimeout(k) => Reply("tool_error", ClientTimeoutMessage)]_vars

\* An executor that fulfilled after the timer had fired: the call has the
\* timeout's tool_error and nothing else.
C24_Witness ==
    \E k \in 1..Len(client.invocations) :
        /\ client.invocations[k].timer = "fired"
        /\ client.invocations[k].promise = "settled"
        /\ \E j \in RepliesTo(wire, client.invocations[k].callId) :
              wire[j].payload = ClientTimeoutMessage
        /\ Cardinality(RepliesTo(wire, client.invocations[k].callId)) = 1

\* The client is connected to the session and the server has handled every
\* frame the client emitted.
Synced ==
    /\ client.connected
    /\ connection.state # "disconnected"
    /\ wire = <<>>

\* The step emits one context_update, with the context merged.
EmitsContext(merged) ==
    wire' = Append(wire, ClientFrame("context_update", Absent, 0, merged))

\* C25: every connect event of the client emits context_update with the merged
\* context, whatever the scope map holds, the empty merge included; while
\* connected every setContext and removeContext emits one context_update with
\* the context merged after the change; so, once the server has handled the
\* frames, its currentContext is the client's merged context.
C25_ContextSync ==
    [][/\ ClientConnect => EmitsContext(GetMergedContext)
       /\ \A scope \in SyncScopes :
            /\ (client.connected /\ RemoveContext(scope)) =>
                  EmitsContext(GetMergedContextOf(client'.contextScopes))
            /\ \A context \in SyncContexts :
                  (client.connected /\ SetContext(scope, context)) =>
                     EmitsContext(GetMergedContextOf(client'.contextScopes))
       /\ Synced' => currentContext' = ParseContext(GetMergedContextOf(client'.contextScopes))]_vars

\* The scopes of the map that have the key field, by their place.
Defining(scopes, field) ==
    {j \in 1..Len(scopes) : HasKey(scopes[j].context, field)}

\* The last of a non-empty set of places.
Last(places) == CHOOSE j \in places : \A other \in places : other <= j

\* The capabilities of all the scopes, one array after the other.
RECURSIVE AllCapabilities(_)
AllCapabilities(scopes) ==
    IF scopes = <<>> THEN <<>>
    ELSE AllCapabilities(SubSeq(scopes, 1, Len(scopes) - 1))
            \o (IF scopes[Len(scopes)].context.capabilities.present
                THEN scopes[Len(scopes)].context.capabilities.items
                ELSE <<>>)

\* The place of the first occurrence of capability in list.
FirstPlace(list, capability) ==
    CHOOSE j \in 1..Len(list) :
        list[j] = capability /\ \A before \in 1..(j - 1) : list[before] # capability

\* kept is list without its duplicates, each value at the rank of its first
\* occurrence.
FirstOccurrences(kept, list) ==
    /\ {kept[j] : j \in 1..Len(kept)} = {list[j] : j \in 1..Len(list)}
    /\ \A p, q \in 1..Len(kept) :
          p < q => FirstPlace(list, kept[p]) < FirstPlace(list, kept[q])

C26_SetThenRemove ==
    (client.lastCall.op = "remove" /\ client.lastCall.fresh) =>
        /\ GetMergedContext = GetMergedContextOf(client.lastCall.before)
        /\ client.lastCall.scope \notin ScopeKeys(client.contextScopes)
        /\ ScopeKeys(client.contextScopes) = ScopeKeys(client.lastCall.before)
        /\ client.lastCall.before = <<>> => GetMergedContext = EmptyClientContext

\* A scope was set and removed on a map of two other scopes whose merge has
\* capabilities of both.
C26_Witness ==
    /\ client.lastCall.op = "remove"
    /\ client.lastCall.fresh
    /\ Len(client.lastCall.before) = 2
    /\ GetMergedContext.capabilities = Capabilities(<<"voice", "camera", "gps">>)

\* The executor the client holds for toolId.
ExecutorOf(c, toolId) == ExecutorsGet(c.executors, toolId)

\* C28: registerExecutor(id, f) with f already the executor of id changes
\* nothing of the map nor of anything else; after registerExecutor(id, g), g
\* is the executor of id, whatever id had; after unregisterExecutor(id), id
\* has none; and an invocation of id runs the executor id has at that moment,
\* which is the one of the last call for id, or, when id has none, is
\* answered with the tool_error while no executor runs.
C28_ExecutorMap ==
    [][/\ \A c \in {client, client'} :
            /\ c.lastExecutorCall.op = "register" =>
                  ExecutorOf(c, c.lastExecutorCall.toolId) = c.lastExecutorCall.func
            /\ c.lastExecutorCall.op = "unregister" =>
                  ExecutorOf(c, c.lastExecutorCall.toolId) = Absent
       /\ \A toolId \in ClientToolIds :
          /\ \A func \in ExecutorFunctions :
                (RegisterExecutor(toolId, func) /\ ExecutorOf(client, toolId) = func) =>
                   /\ client'.executors = client.executors
                   /\ client'.invocations = client.invocations
                   /\ wire' = wire
          /\ \A thrown \in ThrownValues \cup {Returns} :
                HandleInvocation(toolId, Len(client.invocations) + 1, thrown) =>
                   LET a == client'.invocations[Len(client.invocations) + 1]
                   IN  /\ a.executor = ExecutorOf(client, toolId)
                       /\ a.executor = Absent =>
                             /\ a.promise = "none" /\ a.timer = "none"
                             /\ wire' = Append(wire, ClientFrame("tool_error", toolId, a.callId,
                                                                 NoExecutorMessage(toolId)))]_vars

\* Two invocations of one id: the first ran f, then g had replaced f and the
\* second ran g; the id has been unregistered since.
C28_Witness ==
    /\ Len(client.invocations) >= 2
    /\ client.invocations[1].executor = "f"
    /\ client.invocations[2].executor = "g"
    /\ client.invocations[1].toolId = client.invocations[2].toolId
    /\ ExecutorOf(client, client.invocations[1].toolId) = Absent

\* C29: every connection whose handler is done and whose socket is up has its
\* session in the map under its id, the map holds nothing else, and once a
\* socket has had its disconnect the map has no entry for its id, whenever
\* the disconnect came, during initialize included.
C29_SessionMap ==
    /\ sessions \subseteq 1..Len(sockets)
    /\ \A id \in 1..Len(sockets) :
          /\ (sockets[id].up /\ sockets[id].pc = "done") => id \in sessions
          /\ ~sockets[id].up => id \notin sessions

\* The entries of loop i: the user entry that started it and what it appended.
LoopEntries(i) ==
    LET ByLoop(m) == origin[m][1] = i
        kept == SelectSeq([m \in 1..Len(messages) |-> m], ByLoop)
    IN  [j \in 1..Len(kept) |-> messages[kept[j]]]

\* Loop i has returned from the scenario: a first turn that was one call of a
\* registered server tool, a second that was one text event.
ServerToolScenario(i) ==
    /\ loop[i].pc = "done" /\ ~loop[i].rejected
    /\ loop[i].turns = 2
    /\ Len(loop[i].events) = 1 /\ loop[i].events[1].type = "text"
    /\ LET first == TurnEntries(i, 1)
       IN  /\ Len(first) >= 1
           /\ Len(first[1].tool_calls) = 1
           /\ first[1].content = VNull
           /\ first[1].tool_calls[1].function.name \in ToolNames
           /\ GetToolByName(first[1].tool_calls[1].function.name).executionSide = "server"

\* The history of the scenario: the user entry, assistant(tool_calls = [c1]),
\* tool(c1, JSON of the handler's value), assistant(the answer).
ScenarioHistory(i) ==
    LET entries == LoopEntries(i)
        answer == loop[i].events[1].content
    IN  /\ Len(entries) = 4
        /\ entries[1].role = "user"
        /\ entries[2].role = "assistant" /\ Len(entries[2].tool_calls) = 1
        /\ entries[3].role = "tool"
        /\ entries[3].tool_call_id = entries[2].tool_calls[1].id
        /\ IF entries[2].tool_calls[1].function.name = "searchWeather"
           THEN entries[3].content = VStr(Quote("Weather in Paris is sunny"))
           ELSE entries[3].content \in {VStr(JSONStringify(CtxValue(c))) :
                                            c \in Contexts \cup {EmptyContext}}
        /\ entries[4] = AssistantEntry(answer, <<>>)

\* C30: after a first turn that is one call of a registered server tool and a
\* second that is one text event with the answer, the loop has sent two
\* frames: one agent_response with the answer and done false, then the
\* terminal agent_response with content "" and done true; the history after
\* the user entry is assistant(tool_calls = [c1]), tool(c1, JSON encoding of
\* the handler's value), assistant(answer).
C30_ServerToolScenario ==
    \A i \in Loops :
        ServerToolScenario(i) =>
            /\ FramesBy(i) = << Response(loop[i].events[1].content, FALSE, NoActions, i),
                                Response("", TRUE, loop[i].events[1].suggestedActions, i) >>
            /\ ScenarioHistory(i)

\* The scenario with the weather tool has been played to its end.
C30_Witness ==
    /\ ServerToolScenario(1)
    /\ LoopEntries(1)[2].tool_calls[1].function.name = "searchWeather"
    /\ Len(FramesBy(1)) = 2

\* C30 as the specification has it: exactly one agent_response carries the
\* answer, and that frame has done true; the history is as above.
C30_AnswerFrameDone ==
    \A i \in Loops :
        ServerToolScenario(i) =>
            LET fr == FramesBy(i)
                carrying == {j \in 1..Len(fr) :
                                /\ fr[j].event = "agent_response"
                                /\ fr[j].content = loop[i].events[1].content}
            IN  /\ Cardinality(carrying) = 1
                /\ \A j \in carrying : fr[j].done
                /\ ScenarioHistory(i)


\* The calls whose waiter is pending: invoked, and not settled.
PendingWaiters ==
    {c \in 1..(nextCallId - 1) :
        /\ Invoked(emitted, c)
        /\ \A n \in 1..Len(settled) : settled[n].callId # c}

\* C31: a waiter settled by a tool_result, a tool_error or its timer has
\* neither of its two listeners installed nor its timer set; the listeners
\* installed are the two of each pending waiter and the timers set are theirs,
\* each pending waiter is awaited by a loop, and when no loop awaits a client
\* tool no listener is installed and no timer is set.
C31_WaiterCleanup ==
    /\ \A n \in 1..Len(settled) :
          /\ settled[n].by \in {"tool_result", "tool_error", "timeout"}
          /\ \A l \in listeners : l.callId # settled[n].callId
          /\ \A t \in timers : t.callId # settled[n].callId
    /\ Cardinality(listeners) = 2 * Cardinality(PendingWaiters)
    /\ Cardinality(timers) = Cardinality(PendingWaiters)
    /\ \A c \in PendingWaiters :
          /\ \A e \in {"tool_result", "tool_error"} : [event |-> e, callId |-> c] \in listeners
          /\ \E t \in timers : t.callId = c
          /\ \E i \in Loops : Waiting(i, c)
    /\ Cardinality(PendingWaiters) = Cardinality({i \in Loops : loop[i].pc = "waitClient"})
    /\ (\A i \in Loops : loop[i].pc # "waitClient") => listeners = {} /\ timers = {}

\* A waiter was settled by its timer, and the waiter of a later call is
\* pending with its two listeners.
C31_Witness ==
    /\ \E n \in 1..Len(settled) : settled[n].by = "timeout"
    /\ \E i \in Loops : loop[i].pc = "waitClient"
    /\ Cardinality(listeners) = 2


\* The place of call c in the order of the dispatches (0 when not reached).
DispatchRank(c) ==
    IF Dispatched(c) THEN CHOOSE j \in 1..Len(dispatched) : dispatched[j].callId = c ELSE 0

\* C32: of the calls an assistant entry lists, the handler of a call is
\* called or its tool_invocation sent only when the call listed before it has
\* its tool entry; the calls are reached in the listed order; of the calls of
\* one loop at most one has a pending waiter.
C32_Sequential ==
    /\ \A m \in 1..Len(messages) : \A k \in 2..Len(messages[m].tool_calls) :
          LET before == messages[m].tool_calls[k - 1].id
              c == messages[m].tool_calls[k].id
          IN  /\ (Handled(handlerCalls, c) \/ Invoked(emitted, c) \/ Dispatched(c)) =>
                    /\ ToolEntriesOf(messages, before) # {}
                    /\ 0 < DispatchRank(before)
                    /\ DispatchRank(before) < DispatchRank(c)
              /\ ToolEntriesOf(messages, c) # {} =>
                    \A n \in ToolEntriesOf(messages, c) :
                        \E p \in ToolEntriesOf(messages, before) : p < n
    /\ \A i \in Loops :
          Cardinality({c \in PendingWaiters :
                          \E k \in 1..Len(loop[i].toolCalls) : loop[i].toolCalls[k].callId = c}) <= 1

\* The handler of the second call of a turn is awaited, after the waiter of
\* the first was settled by a reply of the client.
C32_Witness ==
    \E i \in Loops :
        /\ loop[i].pc = "handler"
        /\ loop[i].k = 2
        /\ \E n \in 1..Len(settled) :
              /\ settled[n].callId = loop[i].toolCalls[1].callId
              /\ settled[n].by = "tool_result"


\* The frames of the text events with a content, up to the first error event.
RECURSIVE FramesOfText(_, _)
FramesOfText(events, i) ==
    IF events = <<>> \/ events[1].type = "error" THEN <<>>
    ELSE (IF events[1].type = "text" /\ events[1].content # ""
          THEN <<Response(events[1].content, FALSE, NoActions, i)>> ELSE <<>>)
         \o FramesOfText(Tail(events), i)

\* The frames a step sends.
Sent == SubSeq(emitted', Len(emitted) + 1, Len(emitted'))

\* C33: the frames with done false that the step of a provider's answer
\* sends are, in the provider's order, one agent_response with the content of
\* each text event whose content is not empty, and none for a text event
\* whose content is empty.
C33_StreamingFrames ==
    [][\A i \in Loops :
          (loop[i].pc = "provider" /\ loop'[i].pc # "provider") =>
              SelectSeq(Sent, LAMBDA f : ~f.done) = FramesOfText(loop'[i].events, i)]_vars


\* The provider's run of loop i ended the loop: it was rejected, or its
\* events hold an error event.
Failed(lp) == lp.rejected \/ HasError(lp.events)

\* C34: the step in which a run of the provider comes back rejected or with
\* an error event ends the loop and leaves the history, the stored snapshot
\* and the writes in flight as they were, calls no handler, installs no waiter
\* and sends agent_response frames only; none of the tool calls of that event
\* list is ever listed in the history, reaches a handler or is sent to the
\* client.
C34_ProviderErrorAborts ==
    /\ [][\A i \in Loops :
             (loop[i].pc = "provider" /\ loop'[i].pc # "provider" /\ Failed(loop'[i])) =>
                 /\ loop'[i].pc = "done"
                 /\ UNCHANGED <<messages, origin, stored, writes, handlerCalls, dispatched,
                                listeners, timers, settled, currentContext>>
                 /\ \A j \in 1..Len(Sent) : Sent[j].event = "agent_response"]_vars
    /\ [](\A i \in Loops :
             (loop[i].pc = "done" /\ Failed(loop[i])) =>
                 \A n \in 1..Len(CallIdsOf(loop[i].events)) :
                     LET c == CallIdsOf(loop[i].events)[n]
                     IN  /\ ~Dispatched(c)
                         /\ ~Handled(handlerCalls, c)
                         /\ ~Invoked(emitted, c)
                         /\ ToolEntriesOf(messages, c) = {}
                         /\ \A m \in 1..Len(messages) : \A t \in 1..Len(messages[m].tool_calls) :
                                messages[m].tool_calls[t].id # c)

\* A loop ended on an event list in which a tool call comes before the
\* error event, in a turn after its first.
C34_Witness ==
    \E i \in Loops :
        /\ loop[i].pc = "done"
        /\ HasError(loop[i].events)
        /\ CountCalls(loop[i].events) > 0
        /\ loop[i].turns > 1


\* The system entries of a history.
SystemEntries(history) == {m \in 1..Len(history) : history[m].role = "system"}

\* C35: in a session whose sessionId the storage held nothing for, from the
\* moment initialize has seeded the history on, the first entry is the system
\* entry and it is the only system entry, and once initialize has returned
\* the stored history starts with it; also when a user_message was handled
\* while initialize awaited storage.get.
C35_SeededOnce ==
    sockets[1].pc \in {"seed", "done"} =>
        /\ messages # <<>>
        /\ messages[1] = SystemEntry(DefaultSystemPrompt)
        /\ SystemEntries(messages) = {1}
        /\ sockets[1].pc = "done" =>
              /\ stored # Null
              /\ stored.messages # <<>>
              /\ stored.messages[1] = SystemEntry(DefaultSystemPrompt)


\* No context_sync was sent yet: no valid context_update was handled.
NoSync == [context |-> EmptyContext, availableTools |-> <<>>]

\* The user entries of this connection in a history.
UserEntriesOf(history) ==
    {m \in 1..Len(history) : \E content \in UserContents : history[m] = UserEntry(content)}

\* C36: once initialize has returned, currentContext is the context of the
\* last valid context_update handled on the connection, if there was one, and
\* the history holds one user entry for every user_message handled on the
\* connection.
C36_EarlyEventsKept ==
    Initialized =>
        /\ lastSync # NoSync => currentContext = lastSync.context
        /\ Cardinality(UserEntriesOf(messages)) = Started


\* The places of the frames with done true that loop i sent.
DoneFrames(i) ==
    {j \in 1..Len(emitted) :
        emitted[j].by = i /\ emitted[j].event = "agent_response" /\ emitted[j].done}

\* C37: a loop sends at most one agent_response with done true, which is
\* the last frame it sends, and has returned when it is sent; from then on
\* no step changes the loop (no run of the provider, no turn), sends a frame
\* of the loop or appends an entry of the loop.
C37_OneTerminalFrame ==
    /\ [](\A i \in Loops :
             /\ Cardinality(DoneFrames(i)) <= 1
             /\ \A d \in DoneFrames(i) :
                    /\ loop[i].pc = "done"
                    /\ \A j \in 1..Len(emitted) : emitted[j].by = i => j <= d)
    /\ [][\A i \in Loops :
             DoneFrames(i) # {} =>
                 /\ loop'[i] = loop[i]
                 /\ FramesBy(i)' = FramesBy(i)
                 /\ EntriesBy(i, "assistant")' = EntriesBy(i, "assistant")
                 /\ EntriesBy(i, "tool")' = EntriesBy(i, "tool")]_vars

\* A loop has sent its frame with done true after a turn whose call got the
\* anti-ghost entry, and the context is not the initial one.
C37_Witness ==
    \E i \in Loops :
        /\ DoneFrames(i) # {}
        /\ loop[i].turns > 1
        /\ EntriesBy(i, "tool") # {}
        /\ loop[i].availableTools = <<>>
        /\ currentContext # EmptyContext
        /\ \A j \in 1..Len(dispatched) : ~dispatched[j].available


\* The tool calls the assistant entries of the history list.
ListedCalls ==
    {<<m, t>> \in (1..Len(messages)) \X (1..MaxToolCalls) : t <= Len(messages[m].tool_calls)}

\* C38: a step sends a tool_invocation only for a tool that, in that step,
\* is registered, is available for currentContext and is not a server-side
\* tool; a call that names an unregistered tool, once reached, has the
\* anti-ghost entry as its one entry and is neither sent to the client nor
\* handed to a handler; a call of a server-side tool is never sent to the
\* client, and a call sent to the client never reaches a handler.
C38_InvocationRouting ==
    /\ [][\A j \in 1..Len(Sent) :
             Sent[j].event = "tool_invocation" =>
                 /\ Sent[j].toolId \in ToolNames
                 /\ IsToolAvailable(Sent[j].toolId, currentContext)
                 /\ GetToolByName(Sent[j].toolId).executionSide # "server"
                 /\ UNCHANGED <<currentContext, registry>>]_vars
    /\ [](\A call \in ListedCalls :
             LET c == messages[call[1]].tool_calls[call[2]].id
                 name == messages[call[1]].tool_calls[call[2]].function.name
             IN  /\ (name \notin ToolNames /\ Dispatched(c)) =>
                        /\ Ghosted(messages, c)
                        /\ Cardinality(ToolEntriesOf(messages, c)) = 1
                        /\ ~Invoked(emitted, c)
                        /\ ~Handled(handlerCalls, c)
                 /\ (name \in ToolNames /\ GetToolByName(name).executionSide = "server") =>
                        ~Invoked(emitted, c)
                 /\ Invoked(emitted, c) => ~Handled(handlerCalls, c))

\* In one turn a call of an unregistered name got the anti-ghost entry and
\* the call after it was sent to the client.
C38_Witness ==
    \E call \in ListedCalls :
        /\ call[2] = 1
        /\ Len(messages[call[1]].tool_calls) = 2
        /\ messages[call[1]].tool_calls[1].function.name \notin ToolNames
        /\ Ghosted(messages, messages[call[1]].tool_calls[1].id)
        /\ Invoked(emitted, messages[call[1]].tool_calls[2].id)


\* The content of the tool entry of a client result that the schema of the
\* tool called name decides.
EntryContentFor(name, value) ==
    LET validated == ValidateResult(name, value)
    IN  IF validated.success THEN VStr(JSONStringify(validated.data))
        ELSE VStr("{\"error\":" \o Quote("Result validation failed: " \o validated.error) \o "}")

\* C39: the tool entry of a call settled by a tool_result is decided by the
\* resultSchema of the tool the assistant entry names for that callId,
\* whatever toolId the reply carries, and it is the one entry with that
\* callId.
C39_SchemaOfCalledTool ==
    \A j \in 1..Len(settled) :
        settled[j].by = "tool_result" =>
            LET c == settled[j].callId
                reply == settled[j].reply
            IN  /\ reply.callId = c
                /\ \E call \in ListedCalls : messages[call[1]].tool_calls[call[2]].id = c
                /\ Cardinality(ToolEntriesOf(messages, c)) = 1
                /\ \A m \in ToolEntriesOf(messages, c) :
                       messages[m].content = EntryContentFor(NameInHistory(c), reply.result)

\* A call was settled by a tool_result that names another registered tool,
\* whose schema decides the value the other way.
C39_Witness ==
    \E j \in 1..Len(settled) :
        /\ settled[j].by = "tool_result"
        /\ settled[j].reply.toolId \in ToolNames
        /\ settled[j].reply.toolId # NameInHistory(settled[j].callId)
        /\ ValidateResult(settled[j].reply.toolId, settled[j].reply.result).success
               # ValidateResult(NameInHistory(settled[j].callId), settled[j].reply.result).success


\* Every call a history lists has exactly one tool entry, after the
\* assistant entry that lists it.
Answered(history) ==
    \A m \in 1..Len(history) : \A t \in 1..Len(history[m].tool_calls) :
        LET c == history[m].tool_calls[t].id
        IN  /\ Cardinality(ToolEntriesOf(history, c)) = 1
            /\ \A n \in ToolEntriesOf(history, c) : m < n

\* C40: a call has at most one tool entry, and exactly one once its waiter
\* is settled; a step that adds no entry changes no entry, and a step settles
\* at most the waiter a loop is suspended on; at every call of provider.run
\* every call the history lists has exactly one tool entry, after the
\* assistant entry that lists it.
C40_OneEntryPerCall ==
    /\ [](/\ \A c \in 1..(nextCallId - 1) : Cardinality(ToolEntriesOf(messages, c)) <= 1
          /\ \A j \in 1..Len(settled) :
                Cardinality(ToolEntriesOf(messages, settled[j].callId)) = 1)
    /\ [][/\ SubSeq(messages', 1, Len(messages)) = messages
          /\ Len(settled') <= Len(settled) + 1
          /\ \A i \in Loops :
                (loop[i].pc # "provider" /\ loop'[i].pc = "provider") => Answered(messages')]_vars

====
